---- MODULE Spec2Model ----
(***************************************************************************)
(* Gesture-driven rhythm engine of TGGame: the Saber minigame's session    *)
(* (beat scheduler, note lifecycle, hit judgement, grading), its track     *)
(* menu, and the app-level dwell selector.                                 *)
(*                                                                         *)
(* Units.  Wall-clock and audio-clock times are integer milliseconds.      *)
(* nextNoteTimeRef is kept multiplied by the track's bpm (ms * bpm), so    *)
(* that the per-subdivision increment 0.25 * 60/bpm seconds is the integer *)
(* 15000 for every tempo.  Landmark coordinates are thousandths of the     *)
(* normalised [0,1] range, visibilities are hundredths.                    *)
(***************************************************************************)
EXTENDS Integers, Sequences, FiniteSets, TLC

\* ------------------------------------------------------------------------
\* Program constants (src/games/SaberGame.tsx)
\* ------------------------------------------------------------------------
FOCAL_LENGTH == 350
BLOCK_SIZE == 200
GAME_SPEED == 22
SPAWN_Z == 3500
HIT_WINDOW_Z_NEAR == -150
HIT_WINDOW_Z_FAR == 350
GRID_X_SPACING == 1000
GRID_Y_SPACING == 240

TRACK_LIST ==
  << [id |-> "track_1", bpm |-> 105, type |-> "GENERATED"],
     [id |-> "track_2", bpm |-> 130, type |-> "GENERATED"],
     [id |-> "track_3", bpm |-> 150, type |-> "GENERATED"],
     [id |-> "upload",  bpm |-> 120, type |-> "UPLOAD"] >>

\* canvas size (window.innerWidth x window.innerHeight) and its centre
CanvasWidth == 2000
CanvasHeight == 1000
cx == CanvasWidth \div 2
cy == CanvasHeight \div 2

\* setInterval(() => scheduler(ctx, bpm), 25)
SchedulerPeriod == 25
\* scheduleAhead = 0.1 s
scheduleAhead == 100
\* nextNoteTimeRef.current = ctx.currentTime + 0.5
StartDelay == 500
\* 0.25 * secondsPerBeat, in ms * bpm
SubdivisionStep == 15000

\* ------------------------------------------------------------------------
\* Bounds of the model
\* ------------------------------------------------------------------------
\* last instant (ms) at which the scheduler-only specification fires the timer
MaxSchedTime == 3000
\* how many entries of TRACK_LIST the player may start
MaxTrack == 1
\* last instant (ms) at which a callback still runs, per specification:
\* a session played with the hands, one played with the body only, one
\* without any pose input
MaxTime == 3750
MaxDodgeTime == 5400
MaxIdleTime == 7200
\* time between two animation frames (ms)
FrameGap == 16
\* last instant (ms) of the specification of the menus, and the shorter of
\* the two times (ms) that may pass between two of its frames
MaxUITime == 2600
ShortGap == 50
\* largest number of notes of a session whose grade is computed
MaxNotes == 20
\* largest number of scheduler periods one stall may skip
MaxStall == 8
\* a session with hazard notes: how many of them are spawned, and the last
\* instant (ms) at which a callback still runs
MaxHazards == 4
MaxHazardTime == 3000
\* last instant (ms) of a session on an uploaded track
MaxUploadTime == 6300
\* last instant (ms) of a component whose level is started a second time
MaxRestartTime == 3600
\* last instant (ms) of a session in which every note is hit
MaxComboTime == 8000
\* an uploaded track with arbitrary bass readings: the number of frames of
\* its opening passage of constant level, and the last instant (ms) of it
WarmUp == 29
MaxAnalyseTime == 3300
\* last instant (ms) of a component whose sabers are followed
MaxTrailTime == 140

\* ------------------------------------------------------------------------
\* State
\* ------------------------------------------------------------------------
VARIABLES
  now,                 \* performance.now(), the rAF timestamp and ctx.currentTime, ms
  audioAvailable,      \* whether `new AudioContext()` succeeds in this browser
  \* --- SaberGame refs ---
  scoreRef, comboRef, energyRef, hitNotesRef, totalNotesRef,
  blocksRef, obstaclesRef,
  leftHandRef, rightHandRef, headRef, bodyRef,
  sabers,              \* velocityVector and history of leftHandRef and
                       \* rightHandRef, which only the drawing reads; they
                       \* are followed where sabers.followed and left at
                       \* their initial value elsewhere
  audioCtxRef,         \* FALSE = null
  nextNoteTimeRef, current16thNoteRef,
  timerIDRef,          \* 0 = null, else the id returned by setInterval
  userAudioBufferRef,  \* FALSE = null
  userSourceRef,       \* FALSE = null
  analyserRef,         \* FALSE = null (dataArrayRef is set with it)
  lastSpawnTimeRef, bassHistoryRef,
  isPlayingRef, hoverStartTimeRef, hoveredTrackIdRef,
  \* --- browser objects owned by the component ---
  interval,            \* the interval timer created by startLevel
  frameDue,            \* time of the next animation frame
  mounted,             \* the SaberGame component is mounted (isActive effect ran)
  sourcePlaying,       \* the buffer source of userSourceRef is playing
  pendingEnded,        \* `ended` events of buffer sources not yet dispatched
  fileDialogOpen,      \* the file chooser opened by fileInputRef.current.click()
  decoding,            \* handleFileUpload is awaiting arrayBuffer / decodeAudioData
  \* --- App state ---
  gameState, activeGame, score, gameGrade,
  hoveredGame, hoveredAction, hoverProgress, appHoverStartTimeRef,
  \* --- observations (history of what the handlers did) ---
  schedLog,            \* what the last scheduler callback processed
  tickLog,             \* what the last updateGame call did, in order
  gameOverCalls,       \* arguments of every onGameOver call of the session
  alerts,              \* number of alert() dialogs shown
  outcomes,            \* how often each outcome happened in the session
  spawnLog,            \* times of the last two spawn triggers of analyzeAndSpawn
  catchGame,           \* the refs of the CatchGame component (fruit slicing)
  tracked,             \* within updateGame: the hands that the pose input of
                       \* this frame has placed (none between frames)
  dwell                \* the current run of hover updates and its commits

vars == <<now, audioAvailable,
          scoreRef, comboRef, energyRef, hitNotesRef, totalNotesRef,
          blocksRef, obstaclesRef,
          leftHandRef, rightHandRef, headRef, bodyRef, sabers,
          audioCtxRef, nextNoteTimeRef, current16thNoteRef, timerIDRef,
          userAudioBufferRef, userSourceRef, analyserRef,
          lastSpawnTimeRef, bassHistoryRef,
          isPlayingRef, hoverStartTimeRef, hoveredTrackIdRef,
          interval, frameDue, mounted, sourcePlaying, pendingEnded,
          fileDialogOpen, decoding, alerts,
          gameState, activeGame, score, gameGrade,
          hoveredGame, hoveredAction, hoverProgress, appHoverStartTimeRef,
          schedLog, tickLog, gameOverCalls, dwell, outcomes, tracked,
          spawnLog, catchGame>>

\* the whole state as one record, so that a handler is a function on it
State ==
  [now |-> now, audioAvailable |-> audioAvailable,
   scoreRef |-> scoreRef, comboRef |-> comboRef, energyRef |-> energyRef,
   hitNotesRef |-> hitNotesRef, totalNotesRef |-> totalNotesRef,
   blocksRef |-> blocksRef, obstaclesRef |-> obstaclesRef,
   leftHandRef |-> leftHandRef, rightHandRef |-> rightHandRef,
   headRef |-> headRef, bodyRef |-> bodyRef, sabers |-> sabers,
   audioCtxRef |-> audioCtxRef, nextNoteTimeRef |-> nextNoteTimeRef,
   current16thNoteRef |-> current16thNoteRef, timerIDRef |-> timerIDRef,
   userAudioBufferRef |-> userAudioBufferRef, userSourceRef |-> userSourceRef,
   analyserRef |-> analyserRef, lastSpawnTimeRef |-> lastSpawnTimeRef,
   bassHistoryRef |-> bassHistoryRef, sourcePlaying |-> sourcePlaying,
   pendingEnded |-> pendingEnded, isPlayingRef |-> isPlayingRef,
   hoverStartTimeRef |-> hoverStartTimeRef, hoveredTrackIdRef |-> hoveredTrackIdRef,
   interval |-> interval, frameDue |-> frameDue, mounted |-> mounted,
   gameState |-> gameState, activeGame |-> activeGame, score |-> score,
   gameGrade |-> gameGrade, hoveredGame |-> hoveredGame,
   hoveredAction |-> hoveredAction, hoverProgress |-> hoverProgress,
   appHoverStartTimeRef |-> appHoverStartTimeRef,
   schedLog |-> schedLog, tickLog |-> tickLog,
   gameOverCalls |-> gameOverCalls, dwell |-> dwell,
   fileDialogOpen |-> fileDialogOpen, decoding |-> decoding, alerts |-> alerts,
   outcomes |-> outcomes, tracked |-> tracked, spawnLog |-> spawnLog,
   catchGame |-> catchGame]

\* the next state is the record s
Becomes(next) ==
  \E s \in {next} :
    /\ now' = s.now /\ audioAvailable' = s.audioAvailable
    /\ scoreRef' = s.scoreRef /\ comboRef' = s.comboRef /\ energyRef' = s.energyRef
    /\ hitNotesRef' = s.hitNotesRef /\ totalNotesRef' = s.totalNotesRef
    /\ blocksRef' = s.blocksRef /\ obstaclesRef' = s.obstaclesRef
    /\ leftHandRef' = s.leftHandRef /\ rightHandRef' = s.rightHandRef
    /\ headRef' = s.headRef /\ bodyRef' = s.bodyRef /\ sabers' = s.sabers
    /\ catchGame' = s.catchGame
    /\ audioCtxRef' = s.audioCtxRef /\ nextNoteTimeRef' = s.nextNoteTimeRef
    /\ current16thNoteRef' = s.current16thNoteRef /\ timerIDRef' = s.timerIDRef
    /\ userAudioBufferRef' = s.userAudioBufferRef /\ isPlayingRef' = s.isPlayingRef
    /\ userSourceRef' = s.userSourceRef /\ analyserRef' = s.analyserRef
    /\ lastSpawnTimeRef' = s.lastSpawnTimeRef /\ bassHistoryRef' = s.bassHistoryRef
    /\ sourcePlaying' = s.sourcePlaying /\ pendingEnded' = s.pendingEnded
    /\ hoverStartTimeRef' = s.hoverStartTimeRef
    /\ hoveredTrackIdRef' = s.hoveredTrackIdRef
    /\ interval' = s.interval /\ frameDue' = s.frameDue /\ mounted' = s.mounted
    /\ gameState' = s.gameState /\ activeGame' = s.activeGame /\ score' = s.score
    /\ gameGrade' = s.gameGrade /\ hoveredGame' = s.hoveredGame
    /\ hoveredAction' = s.hoveredAction /\ hoverProgress' = s.hoverProgress
    /\ appHoverStartTimeRef' = s.appHoverStartTimeRef
    /\ schedLog' = s.schedLog /\ tickLog' = s.tickLog
    /\ gameOverCalls' = s.gameOverCalls /\ dwell' = s.dwell
    /\ fileDialogOpen' = s.fileDialogOpen /\ decoding' = s.decoding
    /\ alerts' = s.alerts /\ outcomes' = s.outcomes
    /\ tracked' = s.tracked /\ spawnLog' = s.spawnLog

Null == "null"
\* nothing has happened yet to a note or an obstacle; walls: obstacles spawned
\* no hand has been placed by a pose input
NoHands == [left |-> FALSE, right |-> FALSE]
NoOutcomes == [hit |-> 0, miss |-> 0, bomb |-> 0, wall |-> 0, walls |-> 0]
\* hoverStartTimeRef.current = null in App (a time is never negative)
NoTime == -1
\* { history: [], velocityVector: {x:0, y:0} }
ZeroTrail == [velocityVector |-> [x |-> 0, y |-> 0], history |-> <<>>]
NewSabers(followed) ==
  [followed |-> followed, left |-> ZeroTrail, right |-> ZeroTrail]
NoInterval == [active |-> FALSE, bpm |-> 0, due |-> 0, start |-> 0, count |-> 0]
NoSchedLog == [ran |-> FALSE, at |-> 0, first |-> 0, emitted |-> <<>>]
NoDwell == [item |-> Null, since |-> 0, last |-> 0, commits |-> 0]

Min(a, b) == IF a < b THEN a ELSE b
Max(a, b) == IF a > b THEN a ELSE b

GeneratedTracks ==
  {i \in 1..Min(MaxTrack, Len(TRACK_LIST)) : TRACK_LIST[i].type = "GENERATED"}

\* ------------------------------------------------------------------------
\* spawnBlock / spawnWall
\* ------------------------------------------------------------------------
\* every block is pushed as a hazard
NewBlock_bomb(gridX, gridY, color, type) ==
  [gridX |-> gridX, gridY |-> gridY, z |-> SPAWN_Z, color |-> color,
   type |-> "bomb", hit |-> FALSE, remove |-> FALSE]

NewBlock(gridX, gridY, color, type) ==
  [gridX |-> gridX, gridY |-> gridY, z |-> SPAWN_Z, color |-> color,
   type |-> type, hit |-> FALSE, remove |-> FALSE]

NewWall(type) == [type |-> type, z |-> SPAWN_Z, hit |-> FALSE, remove |-> FALSE]

\* if (type === 'normal') totalNotesRef.current++
CountsAsNote(type) == type = "normal"

\* the block is pushed twice
spawnBlock_twice(s, gridX, gridY, color, type) ==
  [s EXCEPT !.blocksRef = Append(Append(@, NewBlock(gridX, gridY, color, type)),
                                 NewBlock(gridX, gridY, color, type)),
            !.totalNotesRef = IF CountsAsNote(type) THEN @ + 1 ELSE @]

spawnBlock(s, gridX, gridY, color, type) ==
  [s EXCEPT !.blocksRef = Append(@, NewBlock(gridX, gridY, color, type)),
            !.totalNotesRef = IF CountsAsNote(type) THEN @ + 1 ELSE @]

spawnWall(s, type) ==
  [s EXCEPT !.obstaclesRef = Append(@, NewWall(type)),
            !.outcomes.walls = @ + 1]

\* ------------------------------------------------------------------------
\* scheduler
\* ------------------------------------------------------------------------
\* The Math.random() draws of one loop iteration, already compared with
\* their thresholds: r14 (> 0.5), r2 (> 0.6), rWall (< 0.02), rSide (> 0.5).
RandomDraws == [r14 : BOOLEAN, r2 : BOOLEAN, rWall : BOOLEAN, rSide : BOOLEAN]

\* the draws that can change the outcome of the iteration for this beat
DrawsFor(beat) ==
  {d \in RandomDraws :
     /\ (beat # 14 => d.r14 = FALSE)
     /\ (beat # 2 => d.r2 = FALSE)
     /\ (beat # 0 => d.rWall = FALSE)
     /\ (~d.rWall => d.rSide = FALSE)}

\* current16thNoteRef.current = (current16thNoteRef.current + 1) % 16
NextBeat_noWrap(beat) == beat + 1

NextBeat(beat) == (beat + 1) % 16

\* the condition of the scheduler's while loop at audio time t:
\* nextNoteTimeRef.current < ctx.currentTime + scheduleAhead
Due_noLookahead(next, t, bpm) == next < t * bpm

Due(next, t, bpm) == next < (t + scheduleAhead) * bpm

\* one iteration of the while loop body, with the draws d
ScheduleBeat(s, d) ==
  LET beat == s.current16thNoteRef
      s0 == IF beat = 0 THEN spawnBlock(s, 2, 0, "blue", "normal") ELSE s
      s1 == IF beat = 8 THEN spawnBlock(s0, 2, 1, "blue", "normal") ELSE s0
      s2 == IF beat = 4 THEN spawnBlock(s1, 1, 0, "red", "normal") ELSE s1
      s3 == IF beat = 12 THEN spawnBlock(s2, 1, 1, "red", "normal") ELSE s2
      s4 == IF beat = 14 /\ d.r14 THEN spawnBlock(s3, 2, 2, "blue", "normal") ELSE s3
      s5 == IF beat = 2 /\ d.r2 THEN spawnBlock(s4, 1, 2, "red", "normal") ELSE s4
      s6 == IF d.rWall /\ beat = 0
            THEN spawnWall(s5, IF d.rSide THEN "WALL_LEFT" ELSE "WALL_RIGHT")
            ELSE s5
  IN [s6 EXCEPT !.schedLog.emitted =
                   Append(@, [beat |-> beat, time |-> s.nextNoteTimeRef]),
                !.interval.count = @ + 1,
                !.nextNoteTimeRef = @ + SubdivisionStep,
                !.current16thNoteRef = NextBeat(@)]

\* while (nextNoteTimeRef.current < ctx.currentTime + scheduleAhead) { ... }
\* ds[i] are the draws of the i-th iteration
RECURSIVE schedulerLoop(_, _, _, _)
schedulerLoop(s, t, ds, i) ==
  IF Due(s.nextNoteTimeRef, t, s.interval.bpm)
  THEN schedulerLoop(ScheduleBeat(s, ds[i]), t, ds, i + 1)
  ELSE s

\* the interval callback () => scheduler(ctx, bpm), run at audio time t
scheduler(s, t, ds) ==
  schedulerLoop([s EXCEPT !.schedLog = [ran |-> TRUE, at |-> t,
                                        first |-> s.interval.count,
                                        emitted |-> <<>>]],
                t, ds, 1)

\* number of iterations the loop makes when entered at audio time t
RECURSIVE DueCount(_, _, _)
DueCount(next, t, bpm) ==
  IF Due(next, t, bpm)
  THEN 1 + DueCount(next + SubdivisionStep, t, bpm)
  ELSE 0

\* the sequences of draws for n iterations starting at subdivision beat
RECURSIVE DrawSeqs(_, _)
DrawSeqs(beat, n) ==
  IF n = 0 THEN {<<>>}
  ELSE {<<d>> \o rest : d \in DrawsFor(beat),
                        rest \in DrawSeqs((beat + 1) % 16, n - 1)}

\* ------------------------------------------------------------------------
\* Observation of a tick
\* ------------------------------------------------------------------------
\* what the HUD scalars are at some point of a tick
Snapshot(s) ==
  [score |-> s.scoreRef, combo |-> s.comboRef, energy |-> s.energyRef,
   hitNotes |-> s.hitNotesRef, totalNotes |-> s.totalNotesRef,
   playing |-> s.isPlayingRef]

\* record in tickLog that `kind` happened to an entity, changing s0 into s1,
\* and count it if it is the outcome of a note or of an obstacle
Logged(s0, s1, kind, z) ==
  [s1 EXCEPT !.tickLog = Append(@, [kind |-> kind, z |-> z, stale |-> FALSE,
                                    color |-> "", left |-> FALSE,
                                    right |-> FALSE, pose |-> FALSE,
                                    before |-> Snapshot(s0),
                                    after |-> Snapshot(s1)]),
             !.outcomes = IF kind \in {"hit", "miss", "bomb", "wall"}
                          THEN [@ EXCEPT ![kind] = @ + 1] ELSE @]

\* ------------------------------------------------------------------------
\* App: handleGameOver, and SaberGame: finishGame
\* ------------------------------------------------------------------------
\* setScore(finalScore); if (grade) setGameGrade(grade); setGameState(GAME_OVER)
handleGameOver(s, finalScore, grade) ==
  [s EXCEPT !.score = finalScore,
            !.gameGrade = IF grade # "" THEN grade ELSE @,
            !.gameState = "GAME_OVER",
            !.gameOverCalls = Append(@, [score |-> finalScore, grade |-> grade])]

\* accuracy = hitNotes / totalNotes compared with 0.90, 0.85, 0.75, 0.60, 0.45
\* (total > 0).  The quotient and the literals are doubles; rounding is
\* monotonic and a quotient that differs from a threshold differs by at
\* least 1 / (100 * total), so the comparisons agree with the exact ones.
GradeOf_strict(hit, total) ==
  IF hit * 100 > 90 * total THEN "SSS"
  ELSE IF hit * 100 > 85 * total THEN "SS"
  ELSE IF hit * 100 > 75 * total THEN "S"
  ELSE IF hit * 100 > 60 * total THEN "A"
  ELSE IF hit * 100 > 45 * total THEN "B"
  ELSE "C"

GradeOf(hit, total) ==
  IF hit * 100 >= 90 * total THEN "SSS"
  ELSE IF hit * 100 >= 85 * total THEN "SS"
  ELSE IF hit * 100 >= 75 * total THEN "S"
  ELSE IF hit * 100 >= 60 * total THEN "A"
  ELSE IF hit * 100 >= 45 * total THEN "B"
  ELSE "C"

\* a session without notes is graded by its accuracy as well
Graded_always(total) == TRUE

\* if (totalNotesRef.current > 0)
Graded(total) == total > 0

finishGame(s) ==
  LET grade == IF Graded(s.totalNotesRef)
               THEN GradeOf(s.hitNotesRef, s.totalNotesRef)
               ELSE "D"
      s1 == [s EXCEPT !.isPlayingRef = FALSE,
                      !.userAudioBufferRef = FALSE]
  IN Logged(s, handleGameOver(s1, s1.scoreRef, grade), "finish", 0)

\* ------------------------------------------------------------------------
\* initAudioContext / startLevel
\* ------------------------------------------------------------------------
\* the context exists afterwards iff it existed or can be created
initAudioContext(s) ==
  IF s.audioCtxRef THEN s
  ELSE IF s.audioAvailable THEN [s EXCEPT !.audioCtxRef = TRUE]
  ELSE s

\* if (timerIDRef.current) clearInterval(timerIDRef.current)
clearTimer_keep(s) == s

clearTimer(s) ==
  IF s.timerIDRef # 0 THEN [s EXCEPT !.interval.active = FALSE] ELSE s

\* if (userSourceRef.current) { try { userSourceRef.current.stop() } catch(e){} }
\* stopping a playing source queues its `ended` event
stopSource_always(s) ==
  IF s.userSourceRef
  THEN [s EXCEPT !.sourcePlaying = FALSE, !.pendingEnded = @ + 1]
  ELSE s

stopSource(s) ==
  IF s.userSourceRef /\ s.sourcePlaying
  THEN [s EXCEPT !.sourcePlaying = FALSE, !.pendingEnded = @ + 1]
  ELSE s

\* energyRef.current = 50
StartEnergy == 50

startLevel(s, bpm) ==
  LET c == initAudioContext(s) IN
  IF ~c.audioCtxRef THEN c
  ELSE
    LET r == [c EXCEPT !.analyserRef = TRUE,
                       !.scoreRef = 0,
                       !.comboRef = 0,
                       !.energyRef = StartEnergy,
                       !.blocksRef = <<>>,
                       !.obstaclesRef = <<>>,
                       !.hitNotesRef = 0,
                       !.totalNotesRef = 0,
                       !.outcomes = NoOutcomes]
        t == stopSource(clearTimer(r))
        u == IF t.userAudioBufferRef
             THEN [t EXCEPT !.userSourceRef = TRUE, !.sourcePlaying = TRUE]
             ELSE [t EXCEPT !.nextNoteTimeRef = (t.now + StartDelay) * bpm,
                            !.current16thNoteRef = 0,
                            !.timerIDRef = @ + 1,
                            !.schedLog = NoSchedLog,
                            !.interval = [active |-> TRUE, bpm |-> bpm,
                                          due |-> t.now + SchedulerPeriod,
                                          start |-> (t.now + StartDelay) * bpm,
                                          count |-> 0]]
    IN [u EXCEPT !.isPlayingRef = TRUE]

\* ------------------------------------------------------------------------
\* handleFileUpload, the `ended` event of the track, the effect cleanup
\* ------------------------------------------------------------------------
\* startLevel(120, file.name.substring(0, 15))
UploadBpm == 120

\* handleFileUpload up to its first await; file: a file was chosen
handleFileUpload(s, file) ==
  LET closed == [s EXCEPT !.fileDialogOpen = FALSE] IN
  IF ~file THEN closed
  ELSE LET c == initAudioContext(closed) IN
       IF ~c.audioCtxRef THEN c ELSE [c EXCEPT !.decoding = TRUE]

\* the rest of the try block, after decodeAudioData has resolved
decodeSucceeded(s) ==
  startLevel([s EXCEPT !.decoding = FALSE, !.userAudioBufferRef = TRUE], UploadBpm)

\* the catch block: console.error(e); alert(...)
decodeFailed_starts(s) ==
  startLevel([s EXCEPT !.decoding = FALSE, !.alerts = @ + 1], UploadBpm)

decodeFailed(s) ==
  [s EXCEPT !.decoding = FALSE, !.alerts = @ + 1]

\* source.onended = () => finishGame()
onended(s) == finishGame([s EXCEPT !.pendingEnded = @ - 1])

\* the cleanup of the isActive effect, after cancelAnimationFrame:
\* clearInterval, source.stop(), ctx.close(), audioCtxRef.current = null
cleanup(s) ==
  [stopSource(clearTimer(s)) EXCEPT !.audioCtxRef = FALSE]

\* ------------------------------------------------------------------------
\* updateLevel: notes
\* ------------------------------------------------------------------------
\* xOffset = (gridX - 1.5) * GRID_X_SPACING and yOffset = (1 - gridY) * GRID_Y_SPACING
xOffsetOf(block) == ((2 * block.gridX - 3) * GRID_X_SPACING) \div 2
yOffsetOf(block) == (1 - block.gridY) * GRID_Y_SPACING

\* hitCheck: dist(hand, proj) < size * 1.5, where proj = centre + offset * scale,
\* size = BLOCK_SIZE * scale and scale = FOCAL_LENGTH / (FOCAL_LENGTH + z).
\* Both sides are multiplied by (FOCAL_LENGTH + z) / 40, which is positive
\* wherever the test is made (z > HIT_WINDOW_Z_NEAR); z and FOCAL_LENGTH are
\* even and the hand offsets from the centre are multiples of 20 pixels.
hitCheck(hand, block) ==
  LET d == (FOCAL_LENGTH + block.z) \div 2
      f == FOCAL_LENGTH \div 2
      dx == ((hand.x - cx) \div 20) * d - (xOffsetOf(block) \div 20) * f
      dy == ((hand.y - cy) \div 20) * d - (yOffsetOf(block) \div 20) * f
      r == ((3 * BLOCK_SIZE) \div 40) * f
  IN dx * dx + dy * dy < r * r

\* if (!block.hit && block.z < HIT_WINDOW_Z_FAR && block.z > HIT_WINDOW_Z_NEAR)
Hittable_early(block) ==
  /\ ~block.hit
  /\ block.z < HIT_WINDOW_Z_FAR + 50
  /\ block.z > HIT_WINDOW_Z_NEAR

Hittable_again(block) ==
  /\ block.z < HIT_WINDOW_Z_FAR
  /\ block.z > HIT_WINDOW_Z_NEAR

Hittable(block) ==
  /\ ~block.hit
  /\ block.z < HIT_WINDOW_Z_FAR
  /\ block.z > HIT_WINDOW_Z_NEAR

\* energyRef.current = Math.max(0, energyRef.current - 15); comboRef.current = 0;
\* if (energyRef.current <= 0) finishGame()
BombHit_noFinish(s) ==
  [s EXCEPT !.energyRef = Max(0, @ - 15), !.comboRef = 0]

BombHit(s) ==
  LET s1 == [s EXCEPT !.energyRef = Max(0, @ - 15), !.comboRef = 0]
  IN IF s1.energyRef <= 0 THEN finishGame(s1) ELSE s1

\* comboRef.current++
ComboAfterHit_double(combo) == combo + 2

ComboAfterHit(combo) == combo + 1

\* energyRef.current = Math.min(100, energyRef.current + 4)
EnergyAfterHit(energy) == Min(100, energy + 4)

\* the bonus tier taken from the combo that the hit produces
HitValue_next(combo) == 100 + (IF combo + 1 > 10 THEN 10 ELSE 0)

\* scoreRef.current += (100 + (comboRef.current > 10 ? 10 : 0))
HitValue(combo) == 100 + (IF combo > 10 THEN 10 ELSE 0)

NormalHit(s) ==
  [s EXCEPT !.hitNotesRef = @ + 1,
            !.scoreRef = @ + HitValue(s.comboRef),
            !.comboRef = ComboAfterHit(@),
            !.energyRef = EnergyAfterHit(@)]

\* note in the last entry of tickLog whether the hit it records was made
\* with no hand that this frame's pose input has placed
ByStaleHand(s, stale) == [s EXCEPT !.tickLog[Len(s.tickLog)].stale = stale]

\* note in the last entry of tickLog the colour of the note that was hit
\* and which hands were within hit distance of it
ByHands(s, color, leftHit, rightHit) ==
  [s EXCEPT !.tickLog[Len(s.tickLog)].color = color,
            !.tickLog[Len(s.tickLog)].left = leftHit,
            !.tickLog[Len(s.tickLog)].right = rightHit]

\* either hand hits a note of either colour
Struck_anyHand(color, leftHit, rightHit) == leftHit \/ rightHit

\* if ((block.color === 'red' && leftHit) || (block.color === 'blue' && rightHit))
Struck(color, leftHit, rightHit) ==
  (color = "red" /\ leftHit) \/ (color = "blue" /\ rightHit)

\* the hit test of one block (already moved) against both hands
JudgeBlock(s, i) ==
  LET block == s.blocksRef[i]
      leftHit == hitCheck(s.leftHandRef, block)
      rightHit == hitCheck(s.rightHandRef, block)
      marked == [s EXCEPT !.blocksRef[i].hit = TRUE]
  IN IF block.type = "bomb"
     THEN IF leftHit \/ rightHit
          THEN ByStaleHand(Logged(s, BombHit(marked), "bomb", block.z),
                           ~((leftHit /\ s.tracked.left) \/ (rightHit /\ s.tracked.right)))
          ELSE s
     ELSE IF Struck(block.color, leftHit, rightHit)
          THEN ByHands(ByStaleHand(Logged(s, NormalHit(marked), "hit", block.z),
                                   IF block.color = "red" THEN ~s.tracked.left
                                                          ELSE ~s.tracked.right),
                       block.color, leftHit, rightHit)
          ELSE s

\* comboRef.current = 0 on a miss
ComboAfterMiss_kept(combo) == combo

ComboAfterMiss(combo) == 0

\* energyRef.current = Math.max(0, energyRef.current - 8)
EnergyAfterMiss(energy) == Max(0, energy - 8)

\* if (!block.hit && block.type !== 'bomb')
Penalised_any(block) == ~block.hit

Penalised(block) == ~block.hit /\ block.type # "bomb"

\* if (block.z < -250) { block.remove = true; ... }; the removal of an unhit
\* note is recorded as "miss", that of an unhit hazard as "expire"
ExpireBlock(s, i) ==
  LET block == s.blocksRef[i]
      gone == [s EXCEPT !.blocksRef[i].remove = TRUE]
      s1 == [gone EXCEPT !.comboRef = ComboAfterMiss(@),
                         !.energyRef = EnergyAfterMiss(@)]
      s2 == IF ~Penalised(block) THEN gone
            ELSE IF s1.energyRef <= 0 THEN finishGame(s1) ELSE s1
  IN IF block.hit THEN s2
     ELSE Logged(s, s2, IF block.type = "bomb" THEN "expire" ELSE "miss",
                 block.z)

\* the block has left the hit window on the near side
Passed_atNear(block) == block.z <= HIT_WINDOW_Z_NEAR

\* if (block.z < -250)
Passed(block) == block.z < -250

\* the body of blocksRef.current.forEach for the block at index i
UpdateBlock(s, i) ==
  IF s.blocksRef[i].remove THEN s
  ELSE
    LET s1 == [s EXCEPT !.blocksRef[i].z = @ - GAME_SPEED]
        s2 == IF Hittable(s1.blocksRef[i]) THEN JudgeBlock(s1, i) ELSE s1
    IN IF Passed(s2.blocksRef[i]) THEN ExpireBlock(s2, i) ELSE s2

RECURSIVE UpdateBlocksFrom(_, _)
UpdateBlocksFrom(s, i) ==
  IF i > Len(s.blocksRef) THEN s ELSE UpdateBlocksFrom(UpdateBlock(s, i), i + 1)

\* blocksRef.current = blocksRef.current.filter(b => !b.remove)
UpdateBlocks(s) ==
  LET s1 == UpdateBlocksFrom(s, 1)
  IN [s1 EXCEPT !.blocksRef = SelectSeq(@, LAMBDA b : ~b.remove)]

\* ------------------------------------------------------------------------
\* updateLevel: obstacles
\* ------------------------------------------------------------------------
\* head position is in thousandths, body position in two-thousandths
\* (the mean of the two shoulders is not divided out)
Collides(s, obs) ==
  \/ obs.type = "WALL_TOP" /\ s.headRef.y < 450
  \/ obs.type = "WALL_LEFT" /\ s.bodyRef.x < 800
  \/ obs.type = "WALL_RIGHT" /\ s.bodyRef.x > 1200

\* the penalty of a collision, kept at or above 0
EnergyAfterCollision_clamped(energy) == Max(0, energy - 10)

\* energyRef.current -= 10
EnergyAfterCollision(energy) == energy - 10

\* an obstacle is never removed
ObstaclePassed_never(obs) == FALSE

\* if (obs.z < -500) obs.remove = true
ObstaclePassed(obs) == obs.z < -500

\* the body of obstaclesRef.current.forEach for the obstacle at index j
UpdateObstacle(s, j) ==
  LET s1 == [s EXCEPT !.obstaclesRef[j].z = @ - GAME_SPEED]
      obs == s1.obstaclesRef[j]
      s2 == IF ~obs.hit /\ obs.z < 250 /\ obs.z > -100 /\ Collides(s1, obs)
            THEN Logged(s1, [s1 EXCEPT !.obstaclesRef[j].hit = TRUE,
                                       !.energyRef = EnergyAfterCollision(@),
                                       !.comboRef = 0],
                        "wall", obs.z)
            ELSE s1
  IN IF ObstaclePassed(obs) THEN [s2 EXCEPT !.obstaclesRef[j].remove = TRUE]
     ELSE s2

RECURSIVE UpdateObstaclesFrom(_, _)
UpdateObstaclesFrom(s, j) ==
  IF j > Len(s.obstaclesRef) THEN s
  ELSE UpdateObstaclesFrom(UpdateObstacle(s, j), j + 1)

\* obstaclesRef.current = obstaclesRef.current.filter(o => !o.remove)
UpdateObstacles(s) ==
  LET s1 == UpdateObstaclesFrom(s, 1)
  IN [s1 EXCEPT !.obstaclesRef = SelectSeq(@, LAMBDA o : ~o.remove)]

\* ------------------------------------------------------------------------
\* analyzeAndSpawn (uploaded track)
\* ------------------------------------------------------------------------
RECURSIVE SumSeq(_)
SumSeq(q) == IF q = <<>> THEN 0 ELSE Head(q) + SumSeq(Tail(q))

\* bassSum is the sum of the first 10 frequency bins (bass = bassSum / 10);
\* the history keeps the sums, so bass > avg * 1.3 is
\* 10 * bassSum * length > 13 * (sum of the history) and bass > 120 is
\* bassSum > 1200.  r is the draw Math.random() > 0.6.
\* a spawn at exactly 600 ms after the last one
Debounced_inclusive(s) == s.now - s.lastSpawnTimeRef >= 600

\* if (performance.now() - lastSpawnTimeRef.current > 600)
Debounced(s) == s.now - s.lastSpawnTimeRef > 600

\* a sample equal to 1.3 times the average, or to the floor, is a beat
IsBeat_inclusive(bassSum, hist) ==
  /\ 10 * bassSum * Len(hist) >= 13 * SumSeq(hist)
  /\ bassSum >= 1200

\* if (bass > avg * 1.3 && bass > 120), hist being the history with the
\* sample pushed
IsBeat(bassSum, hist) ==
  /\ 10 * bassSum * Len(hist) > 13 * SumSeq(hist)
  /\ bassSum > 1200

\* bassHistoryRef.current.push(bass);
\* if (bassHistoryRef.current.length > 30) bassHistoryRef.current.shift()
Pushed(history, bassSum) ==
  LET pushed == Append(history, bassSum)
  IN IF Len(pushed) > 30 THEN Tail(pushed) ELSE pushed

analyzeAndSpawn(s, bassSum, r) ==
  IF ~s.analyserRef THEN s
  ELSE
    LET hist == Pushed(s.bassHistoryRef, bassSum)
        s1 == [s EXCEPT !.bassHistoryRef = hist]
    IN IF Debounced(s) /\ IsBeat(bassSum, hist)
       THEN LET s2 == spawnBlock(s1, 2, 0, "blue", "normal")
                s3 == IF r THEN spawnBlock(s2, 1, 0, "red", "normal") ELSE s2
            IN [s3 EXCEPT !.lastSpawnTimeRef = s.now,
                          !.spawnLog = IF @ = <<>> THEN <<s.now>>
                                       ELSE <<@[Len(@)], s.now>>]
       ELSE s1

\* ------------------------------------------------------------------------
\* updateLevel
\* ------------------------------------------------------------------------
updateLevel(s, in) ==
  LET s0 == IF s.userAudioBufferRef THEN analyzeAndSpawn(s, in.bassSum, in.r) ELSE s
  IN UpdateObstacles(UpdateBlocks(s0))

\* ------------------------------------------------------------------------
\* updateGame: pose input
\* ------------------------------------------------------------------------
\* if (lm[idx] && lm[idx].visibility > 0.5)
Visible(lm) == lm.visibility > 50

\* x = (1 - lm.x) * canvas.width; y = lm.y * canvas.height
HandFrom(lm) ==
  [x |-> ((1000 - lm.x) * CanvasWidth) \div 1000,
   y |-> (lm.y * CanvasHeight) \div 1000]

\* a hand that is not confidently detected is put at the origin
updateHand_toOrigin(hand, lm) ==
  IF Visible(lm) THEN HandFrom(lm) ELSE [x |-> 0, y |-> 0]

updateHand(hand, lm) == IF Visible(lm) THEN HandFrom(lm) ELSE hand

\* ref.current.velocityVector = { x: x - ref.current.x, y: y - ref.current.y };
\* ref.current.history.push({x, y});
\* if (ref.current.history.length > 6) ref.current.history.shift()
\* (hand is ref.current.x, ref.current.y before the update)
updateTrail(trail, hand, lm) ==
  IF Visible(lm)
  THEN LET p == HandFrom(lm)
           pushed == Append(trail.history, p)
       IN [velocityVector |-> [x |-> p.x - hand.x, y |-> p.y - hand.y],
           history |-> IF Len(pushed) > 6 THEN Tail(pushed) ELSE pushed]
  ELSE trail

\* in.pose: a detection result with landmarks is available this frame
\* (video time > 0 and result.landmarks non-empty)
ApplyPose(s, in) ==
  IF ~in.pose THEN [s EXCEPT !.tracked = NoHands]
  ELSE [s EXCEPT !.tracked = [left |-> Visible(in.lm19), right |-> Visible(in.lm20)],
                 !.leftHandRef = updateHand(@, in.lm19),
                 !.rightHandRef = updateHand(@, in.lm20),
                 !.sabers = IF ~@.followed THEN @
                            ELSE [@ EXCEPT
                                    !.left = updateTrail(@, s.leftHandRef, in.lm19),
                                    !.right = updateTrail(@, s.rightHandRef, in.lm20)],
                 !.headRef = [x |-> 1000 - in.lm0.x, y |-> in.lm0.y],
                 !.bodyRef = [x |-> 2000 - (in.lm11x + in.lm12x)]]

\* ------------------------------------------------------------------------
\* updateMenu
\* ------------------------------------------------------------------------
\* card geometry: cardW = 600, cardH = 90, startY = 220, gap = 25
cardW == 600
cardH == 90
cardStartY == 220
cardGap == 25

\* the dwell duration of a track card, and the latest elapsed time at which
\* a completed dwell still commits
MenuDwell == 1500
MenuCommitLimit == 1600

\* idx is the 1-based position in TRACK_LIST (forEach's idx + 1)
checkHover(hand, idx) ==
  LET y == cardStartY + (idx - 1) * (cardH + cardGap)
      x == cx - cardW \div 2
  IN hand.x > x /\ hand.x < x + cardW /\ hand.y > y /\ hand.y < y + cardH

isHovered(s, idx) ==
  checkHover(s.leftHandRef, idx) \/ checkHover(s.rightHandRef, idx)

\* the dwell-commit part of the forEach body for one hovered, tracked card
CommitTrack(s, idx, timestamp) ==
  LET elapsed == timestamp - s.hoverStartTimeRef
      track == TRACK_LIST[idx]
  IN IF elapsed >= MenuDwell
     THEN LET a == initAudioContext(s) IN
          IF elapsed > MenuCommitLimit THEN a
          ELSE IF track.type = "UPLOAD"
               THEN [a EXCEPT !.hoverStartTimeRef = timestamp - 20000,
                              !.fileDialogOpen = TRUE,
                              !.dwell.commits = @ + 1]
               ELSE [startLevel(a, track.bpm) EXCEPT !.dwell.commits = @ + 1]
     ELSE s

\* the forEach over TRACK_LIST, from card idx on
RECURSIVE MenuCardsFrom(_, _, _)
MenuCardsFrom(s, idx, timestamp) ==
  IF idx > Len(TRACK_LIST) THEN s
  ELSE LET s1 == IF isHovered(s, idx) /\ s.hoveredTrackIdRef = TRACK_LIST[idx].id
                 THEN CommitTrack(s, idx, timestamp)
                 ELSE s
       IN MenuCardsFrom(s1, idx + 1, timestamp)

\* hoveredItem after the forEach: the last hovered card, or null
hoveredItemOf(s) ==
  LET hov == {i \in 1..Len(TRACK_LIST) : isHovered(s, i)}
  IN IF hov = {} THEN Null
     ELSE TRACK_LIST[CHOOSE i \in hov : \A j \in hov : j <= i].id

\* the run of consecutive menu updates with one hovered candidate
TrackDwell(s, item, timestamp) ==
  IF item = s.dwell.item
  THEN [s EXCEPT !.dwell.last = timestamp]
  ELSE [s EXCEPT !.dwell = [item |-> item, since |-> timestamp,
                            last |-> timestamp, commits |-> 0]]

\* if (hoveredItem) {...} else {...} at the end of updateMenu
TrackHover(s, item, timestamp) ==
  IF item # Null
  THEN IF s.hoveredTrackIdRef # item
       THEN [s EXCEPT !.hoveredTrackIdRef = item, !.hoverStartTimeRef = timestamp]
       ELSE s
  ELSE [s EXCEPT !.hoveredTrackIdRef = Null, !.hoverStartTimeRef = 0]

updateMenu(s, timestamp) ==
  LET item == hoveredItemOf(s)
      s0 == [s EXCEPT !.dwell.last = IF item = s.dwell.item THEN timestamp ELSE @]
      s1 == MenuCardsFrom(s0, 1, timestamp)
  IN TrackDwell(TrackHover(s1, item, timestamp), item, timestamp)

\* ------------------------------------------------------------------------
\* updateGame: one animation frame of the Saber component
\* ------------------------------------------------------------------------
\* note in the first entry of tickLog, where the sabers are followed,
\* whether the frame had a pose and which hands it has placed
ByPose(s, in) ==
  IF ~s.sabers.followed THEN s
  ELSE [s EXCEPT !.tickLog[1].pose = in.pose,
                 !.tickLog[1].left = s.tracked.left,
                 !.tickLog[1].right = s.tracked.right]

updateGame(s, in) ==
  LET s0 == ApplyPose([s EXCEPT !.tickLog = <<>>], in)
      s1 == IF s0.isPlayingRef
            THEN updateLevel(ByPose(Logged(s0, s0, "level", 0), in), in)
            ELSE updateMenu(ByPose(Logged(s0, s0, "menu", 0), in), s0.now)
  IN [s1 EXCEPT !.tracked = NoHands]

\* ------------------------------------------------------------------------
\* App: startGame, returnToMenu, handleHoverLogic, resetHoverLogic
\* ------------------------------------------------------------------------
\* the model is loaded whenever the motion-control loop runs
startGame(s, type) ==
  [s EXCEPT !.activeGame = type,
            !.score = 0,
            !.gameGrade = "",
            !.gameState = "LOADING_MODEL",
            !.hoveredGame = Null,
            !.hoveredAction = Null,
            !.hoverProgress = 0]

returnToMenu(s) ==
  [s EXCEPT !.gameState = "MENU",
            !.activeGame = Null,
            !.hoveredGame = Null,
            !.hoveredAction = Null,
            !.hoverProgress = 0,
            !.gameGrade = ""]

\* the dwell duration of the app's selector
AppDwell == 1500

\* Math.min((elapsed / 1500) * 100, 100), rounded down to an integer
ProgressOf(elapsed) == Min((elapsed * 100) \div AppDwell, 100)

\* if (progress >= 100)
DwellComplete_strict(progress) == progress > 100

DwellComplete(progress) == progress >= 100

\* onComplete of the two call sites
onComplete(s, item) ==
  IF s.gameState = "MENU" THEN startGame(s, item)
  ELSE IF item = "RETRY" THEN startGame(s, s.activeGame)
  ELSE returnToMenu(s)

\* currentItem / setItem of the two call sites
currentItemOf(s) == IF s.gameState = "MENU" THEN s.hoveredGame ELSE s.hoveredAction

setItem(s, item) ==
  IF s.gameState = "MENU" THEN [s EXCEPT !.hoveredGame = item]
  ELSE [s EXCEPT !.hoveredAction = item]

\* the else branch of handleHoverLogic: a candidate other than the tracked one
Retarget_keepStart(s, newItem) ==
  [setItem(s, newItem) EXCEPT !.hoverProgress = 0,
       !.appHoverStartTimeRef = IF @ = NoTime THEN s.now ELSE @]

Retarget(s, newItem) ==
  [setItem(s, newItem) EXCEPT !.appHoverStartTimeRef = s.now,
                              !.hoverProgress = 0]

handleHoverLogic(s, newItem) ==
  IF newItem = currentItemOf(s)
  THEN IF s.appHoverStartTimeRef # NoTime /\ s.appHoverStartTimeRef # 0
       THEN LET progress == ProgressOf(s.now - s.appHoverStartTimeRef) IN
            IF DwellComplete(progress)
            THEN LET done == [onComplete(s, newItem) EXCEPT !.dwell.commits = @ + 1]
                     s1 == IF s.gameState = "MENU"
                           THEN [done EXCEPT !.hoveredGame = Null]
                           ELSE [done EXCEPT !.hoveredAction = Null]
                 IN [s1 EXCEPT !.hoverProgress = 0, !.appHoverStartTimeRef = NoTime]
            ELSE [s EXCEPT !.hoverProgress = progress]
       ELSE s
  ELSE Retarget(s, newItem)

resetHoverLogic(s) ==
  IF currentItemOf(s) # Null
  THEN [setItem(s, Null) EXCEPT !.hoverProgress = 0, !.appHoverStartTimeRef = NoTime]
  ELSE s

\* the hand-lost branch: if (hoveredGame) reset...; if (hoveredAction) reset...
resetBoth(s) ==
  IF s.hoveredGame # Null \/ s.hoveredAction # Null
  THEN [s EXCEPT !.hoveredGame = Null, !.hoveredAction = Null,
                 !.hoverProgress = 0, !.appHoverStartTimeRef = NoTime]
  ELSE s

\* updateMotionControl for one frame.  in.pose: landmarks are available;
\* in.hand: landmark 20 or 19 is visible; in.element: the card or button
\* under the smoothed cursor (Null if none)
updateMotionControl(s, in) ==
  IF ~in.pose THEN s
  ELSE IF in.hand
       THEN LET s0 == TrackDwell(s, in.element, s.now) IN
            IF in.element # Null THEN handleHoverLogic(s0, in.element)
            ELSE resetHoverLogic(s0)
       ELSE resetBoth(TrackDwell(s, Null, s.now))

\* ------------------------------------------------------------------------
\* CatchGame (fruit slicing): refs, spawnFruit and updateGame
\* ------------------------------------------------------------------------
\* Fruit positions and velocities are in 1/10000 of the canvas, pixel
\* coordinates in tenths of a pixel, landmarks in thousandths and their
\* visibility in hundredths.  `combo` in updateGame is the value of the
\* render whose effect requested the first frame: 0 for a component that
\* has just been mounted.

\* const GRAVITY = 0.0005
GRAVITY == 5

\* FRUIT_CONFIG: size and score
FRUIT_CONFIG ==
  [APPLE |-> [size |-> 80, score |-> 10],
   ORANGE |-> [size |-> 85, score |-> 15],
   LEMON |-> [size |-> 75, score |-> 20],
   WATERMELON |-> [size |-> 105, score |-> 25],
   BOMB |-> [size |-> 95, score |-> 0],
   CHERRY |-> [size |-> 55, score |-> 30],
   STAR |-> [size |-> 70, score |-> 50]]

\* SKILLS.SHIELD: cost and cooldown, and the 5000 ms a skill stays active
ShieldCost == 50
ShieldCooldown == 30000
SkillDuration == 5000

\* useRef(3) and livesRef.current = 3 in the isActive effect
StartLives == 3

\* the refs of the component; active: its isActive effect has run and has
\* not been cleaned up; requested: an animation frame is pending
CatchRefs(active) ==
  [active |-> active, requested |-> active,
   scoreRef |-> 0, livesRef |-> StartLives,
   fruitsRef |-> <<>>, leftBladeRef |-> <<>>, rightBladeRef |-> <<>>,
   lastSpawnTime |-> 0,
   shield |-> [active |-> FALSE, time |-> 0],
   spawned |-> 0]

NoCatchGame == catchGame = CatchRefs(FALSE)

\* spawnFruit with the draws in d: the type drawn, startX, targetX and the
\* upward velocity; EASY has fruitSpeed 1.0.  vx = (targetX - startX) * 0.015
spawnFruit(c, d) ==
  [c EXCEPT !.fruitsRef =
              Append(@, [type |-> d.type, x |-> d.startX, y |-> 11000,
                         vx |-> ((d.targetX - d.startX) * 15) \div 1000,
                         vy |-> d.vy, size |-> FRUIT_CONFIG[d.type].size,
                         hit |-> FALSE]),
            !.spawned = @ + 1]

\* lm[i] && lm[i].visibility > 0.5:
\* { x: (1 - lm.x) * canvas.width, y: lm.y * canvas.height }
\* (seen: the position is not null)
HandPosOf(lm) ==
  [seen |-> lm.visibility > 50,
   x |-> (1000 - lm.x) * (CanvasWidth \div 100),
   y |-> lm.y * (CanvasHeight \div 100)]

\* updateBlade: push the position, keep the points younger than 200 ms
BladeFresh(blade, t) ==
  SelectSeq(blade, LAMBDA p : t - p.time < 200)

updateBlade(blade, pos, t) ==
  BladeFresh(IF pos.seen
             THEN Append(blade, [x |-> pos.x, y |-> pos.y, time |-> t])
             ELSE blade, t)

\* pxX = fruit.x * canvas.width, pxY = fruit.y * canvas.height
pxX(fruit) == (fruit.x * CanvasWidth) \div 1000
pxY(fruit) == (fruit.y * CanvasHeight) \div 1000

\* checkCut: the last two points of the blade are at least 15 pixels apart
\* and the tip is closer to the fruit than size * 0.8 + 20
checkCut(blade, fruit) ==
  IF Len(blade) < 2 THEN FALSE
  ELSE LET tip == blade[Len(blade)]
           prev == blade[Len(blade) - 1]
           sx == tip.x - prev.x
           sy == tip.y - prev.y
           dx == pxX(fruit) - tip.x
           dy == pxY(fruit) - tip.y
           reach == fruit.size * 8 + 200
       IN /\ ~(sx * sx + sy * sy < 150 * 150)
          /\ dx * dx + dy * dy < reach * reach

\* the physics of one fruit in the forEach of updateGame
Moved(fruit) ==
  [fruit EXCEPT !.x = @ + fruit.vx, !.y = @ + fruit.vy,
                !.vy = @ + GRAVITY]

\* the skill update for SHIELD: it ends after 5000 ms and is activated
\* whenever the score covers its cost and its cooldown has passed
updateShield(c, t) ==
  LET ended == IF c.shield.active /\ t - c.shield.time > SkillDuration
               THEN [c.shield EXCEPT !.active = FALSE] ELSE c.shield
  IN [c EXCEPT !.shield =
        IF ~ended.active /\ c.scoreRef >= ShieldCost
                         /\ t - ended.time > ShieldCooldown
        THEN [active |-> TRUE, time |-> t] ELSE ended]

\* Math.max(currentDifficulty.minSpawnTime, 2000 - scoreRef.current * 2), EASY
spawnInterval(c) == Max(1000, 2000 - c.scoreRef * 2)
SpawnDue(c, t) == t - c.lastSpawnTime > spawnInterval(c)

\* the callback of the forEach for the fruits from index i on; its
\* `return` after onGameOver ends the callback of that fruit, and forEach
\* goes on with the next one
RECURSIVE sliceFrom(_, _)
sliceFrom(s, i) ==
  LET c == s.catchGame IN
  IF i > Len(c.fruitsRef) THEN s
  ELSE
    LET fruit == Moved(c.fruitsRef[i])
        m == [c EXCEPT !.fruitsRef[i] = fruit]
        cut == /\ ~fruit.hit
               /\ (checkCut(c.leftBladeRef, fruit) \/ checkCut(c.rightBladeRef, fruit))
        h == [m EXCEPT !.fruitsRef[i].hit = TRUE]
    IN
    IF ~cut THEN sliceFrom([s EXCEPT !.catchGame = m], i + 1)
    ELSE IF fruit.type = "BOMB"
    THEN IF h.shield.active
         THEN sliceFrom([s EXCEPT !.catchGame = [h EXCEPT !.shield.active = FALSE]],
                        i + 1)
         ELSE LET l == [h EXCEPT !.livesRef = @ - 1]
                  s1 == [s EXCEPT !.catchGame = l]
              IN IF l.livesRef <= 0
                 THEN sliceFrom(handleGameOver(s1, l.scoreRef, ""), i + 1)
                 ELSE sliceFrom(s1, i + 1)
    ELSE LET p == [h EXCEPT !.scoreRef = @ + FRUIT_CONFIG[fruit.type].score]
             q == IF fruit.type = "CHERRY" /\ p.livesRef < 3
                  THEN [p EXCEPT !.livesRef = @ + 1] ELSE p
         IN sliceFrom([s EXCEPT !.catchGame = q], i + 1)

\* fruitsRef.current.filter: hit fruits and fruits that fall below the
\* canvas are removed
Gone(f) == f.hit \/ (f.y > 12000 /\ f.vy > 0)

\* updateGame(timestamp) of CatchGame.  in.left, in.right: landmarks 19
\* and 20; in.draws: what Math.random() yields if a fruit is spawned
catchUpdate(s, in) ==
  LET t == s.now
      c0 == s.catchGame
      c1 == [c0 EXCEPT !.leftBladeRef = updateBlade(@, HandPosOf(in.left), t),
                       !.rightBladeRef = updateBlade(@, HandPosOf(in.right), t)]
      c2 == updateShield(c1, t)
      c3 == IF SpawnDue(c2, t)
            THEN [spawnFruit(c2, in.draws) EXCEPT !.lastSpawnTime = t]
            ELSE c2
      s4 == sliceFrom([s EXCEPT !.catchGame = c3], 1)
  IN [s4 EXCEPT !.catchGame.fruitsRef = SelectSeq(@, LAMBDA f : ~Gone(f))]

\* the cleanup of the isActive effect: cancelAnimationFrame
catchCleanup(s) ==
  [s EXCEPT !.catchGame.active = FALSE, !.catchGame.requested = FALSE]

\* ------------------------------------------------------------------------
\* Initial states
\* ------------------------------------------------------------------------
\* the refs of a SaberGame component as its useRef calls create them
SaberRefsWith(followed) ==
  /\ sabers = NewSabers(followed)
  /\ comboRef = 0 /\ energyRef = StartEnergy
  /\ blocksRef = <<>> /\ obstaclesRef = <<>>
  /\ leftHandRef = [x |-> 0, y |-> 0] /\ rightHandRef = [x |-> 0, y |-> 0]
  /\ headRef = [x |-> 500, y |-> 500] /\ bodyRef = [x |-> 1000]
  /\ audioCtxRef = FALSE
  /\ nextNoteTimeRef = 0 /\ current16thNoteRef = 0 /\ timerIDRef = 0
  /\ userAudioBufferRef = FALSE /\ userSourceRef = FALSE /\ analyserRef = FALSE
  /\ lastSpawnTimeRef = 0 /\ bassHistoryRef = <<>>
  /\ hoverStartTimeRef = 0 /\ hoveredTrackIdRef = Null
  /\ interval = NoInterval /\ sourcePlaying = FALSE /\ pendingEnded = 0
  /\ fileDialogOpen = FALSE /\ decoding = FALSE

SaberRefsInit == SaberRefsWith(FALSE)

\* no level has been started
NoSessionInit ==
  /\ scoreRef = 0 /\ hitNotesRef = 0 /\ totalNotesRef = 0
  /\ isPlayingRef = FALSE

ObservationsInit ==
  /\ schedLog = NoSchedLog /\ tickLog = <<>> /\ gameOverCalls = <<>>
  /\ dwell = NoDwell /\ alerts = 0 /\ outcomes = NoOutcomes
  /\ tracked = NoHands /\ spawnLog = <<>>

\* the app after mounting: the menu is shown, no game component exists
InitApp ==
  /\ now = 0 /\ audioAvailable = TRUE
  /\ SaberRefsInit /\ NoSessionInit /\ ObservationsInit /\ NoCatchGame
  /\ mounted = FALSE /\ frameDue = 0
  /\ gameState = "MENU" /\ activeGame = Null /\ score = 0 /\ gameGrade = ""
  /\ hoveredGame = Null /\ hoveredAction = Null /\ hoverProgress = 0
  /\ appHoverStartTimeRef = NoTime

\* the Saber component right after mounting (the app is PLAYING Saber):
\* the isActive effect has reset the score and requested the first frame
Init ==
  /\ now = 0 /\ audioAvailable \in BOOLEAN
  /\ SaberRefsInit /\ NoSessionInit /\ ObservationsInit /\ NoCatchGame
  /\ mounted = TRUE /\ frameDue = FrameGap
  /\ gameState = "PLAYING" /\ activeGame = "SABER" /\ score = 0 /\ gameGrade = ""
  /\ hoveredGame = Null /\ hoveredAction = Null /\ hoverProgress = 0
  /\ appHoverStartTimeRef = NoTime

\* ------------------------------------------------------------------------
\* Landmarks fed to the handlers
\* ------------------------------------------------------------------------
\* a hand shown over the left lanes, over the right lanes, below the track
\* cards (away from every lane and card), and one not confidently detected
LmLeftLane == [x |-> 750, y |-> 600, visibility |-> 90]
LmRightLane == [x |-> 250, y |-> 600, visibility |-> 90]
LmAway == [x |-> 500, y |-> 540, visibility |-> 90]
LmLost == [x |-> 500, y |-> 540, visibility |-> 30]

\* a hand shown over the card of the first track and over the upload card
LmCard1 == [x |-> 500, y |-> 265, visibility |-> 90]
LmUpload == [x |-> 500, y |-> 610, visibility |-> 90]

\* a pose frame; the head is upright and the shoulders are at sh[1], sh[2]
PoseFrame(l19, l20, sh) ==
  [pose |-> TRUE, lm19 |-> l19, lm20 |-> l20, lm0 |-> [x |-> 500, y |-> 300],
   lm11x |-> sh[1], lm12x |-> sh[2], bassSum |-> 0, r |-> FALSE]

\* shoulders of a body standing in the middle, leaning left, leaning right
Upright == <<450, 550>>
LeanLeft == <<650, 750>>
LeanRight == <<250, 350>>

\* no detection result this frame
NoPose == [PoseFrame(LmLost, LmLost, Upright) EXCEPT !.pose = FALSE]

\* a player using the hands and standing upright
HandInputs ==
  {NoPose} \cup
  {PoseFrame(l, r, Upright) : l \in {LmLeftLane, LmAway, LmLost},
                              r \in {LmRightLane, LmAway, LmLost}}

\* a player whose hands are never detected, moving the body
BodyInputs ==
  {NoPose} \cup {PoseFrame(LmLost, LmLost, sh) : sh \in {Upright, LeanLeft, LeanRight}}

\* a player in the track menu pointing with the right hand
MenuInputs ==
  {NoPose} \cup
  {PoseFrame(LmLost, r, Upright) : r \in {LmCard1, LmUpload, LmAway, LmLost}}

\* what the app's cursor can be over: game cards in the menu, action buttons
\* on the game-over screen
AppElements(state) ==
  IF state = "MENU" THEN {Null, "SABER", "CATCH"} ELSE {Null, "RETRY", "MENU"}

\* a detected pose with no visible hand, or with a hand whose cursor is
\* over an element (a frame without landmarks only lets time pass)
AppInputs(state) ==
  {[pose |-> TRUE, hand |-> FALSE, element |-> Null]} \cup
  {[pose |-> TRUE, hand |-> TRUE, element |-> e] : e \in AppElements(state)}

\* ------------------------------------------------------------------------
\* Actions
\* ------------------------------------------------------------------------
\* startLevel(track.bpm, track.name) for a synthesized track
StartTrack ==
  /\ mounted /\ ~isPlayingRef /\ gameOverCalls = <<>>
  /\ \E i \in GeneratedTracks : Becomes(startLevel(State, TRACK_LIST[i].bpm))

\* the interval callback at time t
SchedulerAt(t) ==
  \E ds \in DrawSeqs(current16thNoteRef, DueCount(nextNoteTimeRef, t, interval.bpm)) :
    Becomes(scheduler([State EXCEPT !.now = t,
                                    !.interval.due = t + SchedulerPeriod], t, ds))

\* the callback after n missed periods
StalledTick ==
  /\ interval.active
  /\ \E n \in 0..MaxStall :
       /\ now + SchedulerPeriod * (n + 1) <= MaxSchedTime
       /\ SchedulerAt(now + SchedulerPeriod * (n + 1))

\* the callback at its due time; a frame due at the same time runs after it
TimerFire(limit) ==
  /\ interval.active
  /\ interval.due <= limit
  /\ mounted => interval.due <= frameDue
  /\ SchedulerAt(interval.due)

\* requestAnimationFrame(updateGame): one frame with a pose input
Frame(inputs, limit) ==
  /\ mounted
  /\ frameDue <= limit
  /\ interval.active => frameDue < interval.due
  /\ \E in \in inputs :
       Becomes(updateGame([State EXCEPT !.now = frameDue,
                                        !.frameDue = frameDue + FrameGap], in))

\* the refs of a new SaberGame component (no component: no refs)
freshRefs(s) ==
  [s EXCEPT !.scoreRef = 0, !.comboRef = 0, !.energyRef = StartEnergy,
            !.hitNotesRef = 0, !.totalNotesRef = 0,
            !.blocksRef = <<>>, !.obstaclesRef = <<>>,
            !.leftHandRef = [x |-> 0, y |-> 0], !.rightHandRef = [x |-> 0, y |-> 0],
            !.headRef = [x |-> 500, y |-> 500], !.bodyRef = [x |-> 1000],
            !.sabers = NewSabers(@.followed),
            !.audioCtxRef = FALSE, !.nextNoteTimeRef = 0,
            !.current16thNoteRef = 0, !.timerIDRef = 0,
            !.userAudioBufferRef = FALSE, !.userSourceRef = FALSE,
            !.analyserRef = FALSE, !.lastSpawnTimeRef = 0, !.bassHistoryRef = <<>>,
            !.isPlayingRef = FALSE, !.hoverStartTimeRef = 0,
            !.hoveredTrackIdRef = Null]

\* a new SaberGame component is mounted and its isActive effect runs:
\* scoreRef.current = 0; isPlayingRef.current = false; requestAnimationFrame
mountSaber(s) ==
  [freshRefs(s) EXCEPT !.tickLog = <<>>, !.schedLog = NoSchedLog,
                       !.gameOverCalls = <<>>, !.outcomes = NoOutcomes,
                       !.spawnLog = <<>>,
                       !.mounted = TRUE, !.frameDue = s.now + FrameGap]

\* the refs of an unmounted component stay as they are while one of its
\* callbacks (onended, the continuation of handleFileUpload) can still run
released(s) ==
  IF ~s.mounted /\ s.pendingEnded = 0 /\ ~s.decoding THEN freshRefs(s) ELSE s

\* the app has left PLAYING: the cleanup of the isActive effect runs
\* (cancelAnimationFrame, clearInterval, source.stop(), ctx.close()) and
\* the component is gone
Unmount ==
  /\ mounted
  /\ gameState # "PLAYING"
  /\ Becomes(released([cleanup(State) EXCEPT !.mounted = FALSE, !.frameDue = 0]))

\* the times that may pass between two frames of the menus: a short one
\* and one that is longer than the 100 ms between the dwell duration and
\* the commit limit of the track menu
UIGaps == {ShortGap, 14 * ShortGap}

\* updateMotionControl: one frame of the app's motion-control loop, which
\* runs in MENU and GAME_OVER; its effect starts in the render that has
\* unmounted the game component
MotionFrame ==
  /\ gameState \in {"MENU", "GAME_OVER"}
  /\ ~mounted
  /\ \E gap \in UIGaps, in \in AppInputs(gameState) :
       /\ now + gap <= MaxUITime
       /\ Becomes(updateMotionControl([State EXCEPT !.now = now + gap], in))

\* setTimeout(() => setGameState(PLAYING), 1000); the game component of
\* activeGame is mounted by the render that follows
LoadingDone ==
  /\ gameState = "LOADING_MODEL"
  /\ now + 1000 <= MaxUITime
  /\ LET s == [State EXCEPT !.now = now + 1000, !.gameState = "PLAYING",
                            !.dwell = NoDwell]
     IN Becomes(IF activeGame = "SABER" THEN mountSaber(s) ELSE s)

\* onGameOver={handleGameOver} called by a DodgeGame or CatchGame component
GameEnds ==
  /\ gameState = "PLAYING" /\ activeGame # "SABER"
  /\ \E finalScore \in {0, 100} :
       Becomes([handleGameOver(State, finalScore, "") EXCEPT
                  !.gameOverCalls = <<>>, !.dwell = NoDwell])

\* onClick={returnToMenu} of the exit button shown while PLAYING
ExitClick ==
  /\ gameState = "PLAYING"
  /\ Becomes([returnToMenu(State) EXCEPT !.dwell = NoDwell])

\* one frame of the Saber component while its track menu is shown
MenuFrame ==
  /\ mounted /\ gameState = "PLAYING" /\ ~isPlayingRef
  /\ \E gap \in UIGaps, in \in MenuInputs :
       /\ now + gap <= MaxUITime
       /\ Becomes(updateGame([State EXCEPT !.now = now + gap,
                                           !.frameDue = now + gap + FrameGap], in))

\* ------------------------------------------------------------------------
\* Specifications
\* ------------------------------------------------------------------------
\* the scheduler on its own, with stalls
NextSched == StartTrack \/ StalledTick
SpecSched == Init /\ [][NextSched]_vars

\* a session played with the hands, from its start until MaxTime (too early
\* for the energy to run out, so the component stays mounted)
HandFrame == isPlayingRef /\ Frame(HandInputs, MaxTime)
HandTimer == TimerFire(MaxTime)
Next == StartTrack \/ HandTimer \/ HandFrame
Spec == Init /\ [][Next]_vars

\* a session played with the body only
BodyFrame == isPlayingRef /\ Frame(BodyInputs, MaxDodgeTime)
BodyTimer == TimerFire(MaxDodgeTime)
NextDodge == StartTrack \/ BodyTimer \/ BodyFrame \/ Unmount
SpecDodge == Init /\ [][NextDodge]_vars

\* a session without any pose input (Scenario A)
IdleFrame == isPlayingRef /\ Frame({NoPose}, MaxIdleTime)
IdleTimer == TimerFire(MaxIdleTime)
NextIdle == StartTrack \/ IdleTimer \/ IdleFrame \/ Unmount

\* the event loop runs the callback that is due next: the clock moves to
\* the due time of the timer (IdleTimer) or of the frame (IdleFrame)
EventLoop ==
  \/ /\ interval.active /\ interval.due <= MaxIdleTime
     /\ mounted => interval.due <= frameDue
     /\ now' = interval.due
  \/ /\ mounted /\ isPlayingRef /\ frameDue <= MaxIdleTime
     /\ interval.active => frameDue < interval.due
     /\ now' = frameDue

\* fair ticking: the event loop does not stop while a callback is due
SpecIdle == Init /\ [][NextIdle]_vars /\ WF_now(EventLoop)

\* the game-over screen after a Catch game
InitGameOver ==
  /\ now = 0 /\ audioAvailable = TRUE
  /\ SaberRefsInit /\ NoSessionInit /\ ObservationsInit /\ NoCatchGame
  /\ mounted = FALSE /\ frameDue = 0
  /\ gameState = "GAME_OVER" /\ activeGame = "CATCH" /\ score = 0 /\ gameGrade = ""
  /\ hoveredGame = Null /\ hoveredAction = Null /\ hoverProgress = 0
  /\ appHoverStartTimeRef = NoTime

\* the menus: the app's game menu, its game-over screen, and the track
\* menu of a Saber component just mounted; a started level is left through
\* the exit button before its first callback
InitUI == InitApp \/ InitGameOver \/ Init
NextUI == MotionFrame \/ LoadingDone \/ GameEnds \/ ExitClick \/ MenuFrame \/ Unmount
SpecUI == InitUI /\ [][NextUI]_vars

\* a session with hazard notes.  No call in the source passes 'bomb' to
\* spawnBlock; here hazards enter through that parameter, in the left lane,
\* before the first tick of the level, and each hand may come over the lane
HazardInputs ==
  {NoPose, PoseFrame(LmLeftLane, LmLost, Upright),
   PoseFrame(LmLost, LmLeftLane, Upright), PoseFrame(LmAway, LmAway, Upright)}
Hazards == SelectSeq(blocksRef, LAMBDA b : b.type = "bomb")
SpawnHazard ==
  /\ mounted /\ isPlayingRef /\ tickLog = <<>>
  /\ Len(Hazards) < MaxHazards
  /\ Becomes(spawnBlock(State, 1, 0, "red", "bomb"))
HazardFrame == isPlayingRef /\ Frame(HazardInputs, MaxHazardTime)
HazardTimer == TimerFire(MaxHazardTime)
NextHazard == StartTrack \/ SpawnHazard \/ HazardTimer \/ HazardFrame \/ Unmount
SpecHazard == Init /\ [][NextHazard]_vars

\* a session on an uploaded track.  The player points at the upload card,
\* chooses a file (or cancels), and the decoded track plays; the track is
\* silent except for beats at least 600 ms apart
PointAtUpload ==
  /\ mounted /\ gameState = "PLAYING" /\ ~isPlayingRef
  /\ ~fileDialogOpen /\ ~decoding
  /\ now + ShortGap <= MaxUploadTime
  /\ Becomes(updateGame([State EXCEPT !.now = now + ShortGap,
                                      !.frameDue = now + ShortGap + FrameGap],
                        PoseFrame(LmLost, LmUpload, Upright)))

\* onChange={handleFileUpload} of the file input
ChooseFile ==
  /\ fileDialogOpen
  /\ \E file \in BOOLEAN : Becomes(handleFileUpload(State, file))

\* decodeAudioData resolves or rejects
DecodeDone ==
  /\ decoding
  /\ \E ok \in BOOLEAN :
       Becomes(IF ok THEN decodeSucceeded(State) ELSE decodeFailed(State))

\* the analyser's bass reading of a frame: quiet, or a beat (with the draw
\* Math.random() > 0.6 of analyzeAndSpawn)
Quiet == NoPose
Beat(r) == [NoPose EXCEPT !.bassSum = 2000, !.r = r]

\* a beat may come on the second frame of the track and on the first frame
\* on which 600 ms have passed since the last spawn
BeatSlot ==
  /\ frameDue - lastSpawnTimeRef > 600
  /\ (now - lastSpawnTimeRef <= 600 \/ Len(bassHistoryRef) = 1)

UploadInputs == {Quiet} \cup (IF BeatSlot THEN {Beat(TRUE), Beat(FALSE)} ELSE {})

UploadFrame == isPlayingRef /\ Frame(UploadInputs, MaxUploadTime)

\* the buffer source has played the whole track
TrackEnded ==
  /\ userSourceRef /\ sourcePlaying
  /\ Becomes([State EXCEPT !.sourcePlaying = FALSE, !.pendingEnded = @ + 1])

\* the `ended` event of a buffer source is dispatched
EndedEvent ==
  /\ pendingEnded > 0
  /\ Becomes(released(onended(State)))

\* the exit button while the track plays
UploadExit == isPlayingRef /\ ExitClick

NextUpload ==
  \/ PointAtUpload \/ ChooseFile \/ DecodeDone \/ UploadFrame
  \/ TrackEnded \/ EndedEvent \/ UploadExit \/ Unmount
SpecUpload == Init /\ [][NextUpload]_vars

\* a session on any synthesized track without pose input, until the
\* component is gone: after finishGame the cleanup of the isActive effect
\* runs later, before the next animation frame
SynthTracks == {i \in 1..Len(TRACK_LIST) : TRACK_LIST[i].type = "GENERATED"}
StartAnyTrack ==
  /\ mounted /\ ~isPlayingRef /\ gameOverCalls = <<>>
  /\ \E i \in SynthTracks : Becomes(startLevel(State, TRACK_LIST[i].bpm))
NextTeardown == StartAnyTrack \/ IdleTimer \/ IdleFrame \/ Unmount
SpecTeardown == Init /\ [][NextTeardown]_vars

\* a component whose level is started a second time: the player chooses a
\* file and, while it is being decoded, starts a synthesized track; when the
\* decoding ends, handleFileUpload starts the uploaded track over the
\* running session.  No pose input; the player may leave through the exit
RestartFrame == isPlayingRef /\ Frame({Quiet}, MaxRestartTime)
RestartTimer == TimerFire(MaxRestartTime)
RestartPoint == now + ShortGap <= MaxRestartTime /\ PointAtUpload
NextRestart ==
  \/ RestartPoint \/ ChooseFile \/ StartTrack \/ DecodeDone
  \/ RestartTimer \/ RestartFrame \/ UploadExit \/ Unmount \/ EndedEvent
SpecRestart == Init /\ [][NextRestart]_vars

\* the app's dwell cursor with frames on which no pose is available: the
\* detection result has no landmarks (or the video has no frame yet)
NoLandmarks == [pose |-> FALSE, hand |-> FALSE, element |-> Null]
LostFrame ==
  /\ gameState \in {"MENU", "GAME_OVER"}
  /\ ~mounted
  /\ \E gap \in UIGaps :
       /\ now + gap <= MaxUITime
       /\ Becomes(updateMotionControl([State EXCEPT !.now = now + gap], NoLandmarks))
InitCursor == InitApp \/ InitGameOver
NextCursor == MotionFrame \/ LostFrame
SpecCursor == InitCursor /\ [][NextCursor]_vars

\* a session on an uploaded track in which every note is hit: the left hand
\* is held where the red notes enter the hit window and the right hand
\* where the blue ones do
LmRedHand == [x |-> 630, y |-> 560, visibility |-> 90]
LmBlueHand == [x |-> 370, y |-> 560, visibility |-> 90]
Striking(in) == [in EXCEPT !.pose = TRUE, !.lm19 = LmRedHand, !.lm20 = LmBlueHand]
ComboPoint == now + ShortGap <= MaxComboTime /\ PointAtUpload
ComboDecoded == decoding /\ Becomes(decodeSucceeded(State))
ComboFrame ==
  isPlayingRef /\ Frame({Striking(in) : in \in UploadInputs}, MaxComboTime)
NextCombo == ComboPoint \/ ChooseFile \/ ComboDecoded \/ ComboFrame
SpecCombo == Init /\ [][NextCombo]_vars

\* a session on an uploaded track whose bass readings are arbitrary.  The
\* track opens with a passage of constant level, silent or loud, read on
\* WarmUp consecutive frames; after it every frame comes 300 or 301 ms after
\* the one before and reads a level at or next to the floor (bass 120) or
\* at or next to 1.3 times the average of the loud passage
Passages == {0, 1435}
FreeSamples == {1200, 1201, 1885, 1886}
TickGaps == {300, 301}
Reading(bassSum, r) == [NoPose EXCEPT !.bassSum = bassSum, !.r = r]
AnalysePoint == now + ShortGap <= MaxAnalyseTime /\ PointAtUpload
PassageFrame ==
  /\ isPlayingRef /\ userAudioBufferRef
  /\ Len(bassHistoryRef) < WarmUp
  /\ Frame({Reading(b, FALSE) :
              b \in IF bassHistoryRef = <<>> THEN Passages
                    ELSE {bassHistoryRef[Len(bassHistoryRef)]}},
           MaxAnalyseTime)
AnalyseFrame ==
  /\ mounted /\ isPlayingRef /\ userAudioBufferRef
  /\ Len(bassHistoryRef) >= WarmUp
  /\ \E gap \in TickGaps, b \in FreeSamples, r \in BOOLEAN :
       /\ now + gap <= MaxAnalyseTime
       /\ Becomes(updateGame([State EXCEPT !.now = now + gap,
                                           !.frameDue = now + gap + FrameGap],
                             Reading(b, r)))
NextAnalyse ==
  AnalysePoint \/ ChooseFile \/ ComboDecoded \/ PassageFrame \/ AnalyseFrame
SpecAnalyse == Init /\ [][NextAnalyse]_vars

\* a component whose sabers are followed (position, velocity vector and
\* history of both hands), in the track menu or in a level started before
\* the first frame
InitHand ==
  /\ now = 0 /\ audioAvailable = TRUE
  /\ SaberRefsWith(TRUE) /\ NoSessionInit /\ ObservationsInit /\ NoCatchGame
  /\ mounted = TRUE /\ frameDue = FrameGap
  /\ gameState = "PLAYING" /\ activeGame = "SABER" /\ score = 0 /\ gameGrade = ""
  /\ hoveredGame = Null /\ hoveredAction = Null /\ hoverProgress = 0
  /\ appHoverStartTimeRef = NoTime
TrailInputs ==
  {NoPose, PoseFrame(LmLeftLane, LmLost, Upright),
   PoseFrame(LmAway, LmRightLane, Upright), PoseFrame(LmLost, LmAway, Upright)}
TrailStart == tickLog = <<>> /\ StartTrack
TrailFrame == Frame(TrailInputs, MaxTrailTime)
TrailTimer == TimerFire(MaxTrailTime)
NextHand == TrailStart \/ TrailTimer \/ TrailFrame
SpecHand == InitHand /\ [][NextHand]_vars

\* a session of either kind, chosen before the first frame of the level: a
\* synthesized track played with the hands, or an uploaded track on which
\* every note is hit
SynthStart == tickLog = <<>> /\ StartTrack
SynthFrame == ~userAudioBufferRef /\ HandFrame
UploadedFrame == userAudioBufferRef /\ ComboFrame
NextSpawn ==
  \/ SynthStart \/ HandTimer \/ SynthFrame
  \/ ComboPoint \/ ChooseFile \/ ComboDecoded \/ UploadedFrame
SpecSpawn == Init /\ [][NextSpawn]_vars

\* a session of the fruit-slicing game on a device that delivers a frame
\* every CatchFrameGap ms, entered CatchMountTime ms after the page was
\* loaded.  Bombs and cherries rise in two columns; the left hand slashes
\* high in the left column and the right hand low in the right column,
\* and a hand is held into the picture only while a fruit is within
\* 50 pixels of a place where it slashes.
\* The sessions end before TIME_FREEZE and BOMB_CLEAR can be activated and
\* before the score of a fruit rain or of a higher difficulty is reached
CatchMountTime == 31000
CatchFrameGap == 100
MaxCatchTime == 38000
MaxFruits == 4

InitCatch ==
  /\ now = CatchMountTime /\ audioAvailable = TRUE
  /\ SaberRefsInit /\ NoSessionInit /\ ObservationsInit
  /\ catchGame = CatchRefs(TRUE)
  /\ mounted = FALSE /\ frameDue = 0
  /\ gameState = "PLAYING" /\ activeGame = "CATCH" /\ score = 0 /\ gameGrade = ""
  /\ hoveredGame = Null /\ hoveredAction = Null /\ hoverProgress = 0
  /\ appHoverStartTimeRef = NoTime

LmHidden == [x |-> 500, y |-> 500, visibility |-> 30]
LeftSlash == {[x |-> 700, y |-> y, visibility |-> 90] : y \in {440, 460}}
RightSlash == {[x |-> 300, y |-> y, visibility |-> 90] : y \in {980, 1000}}
FruitDraws ==
  {[type |-> ty, startX |-> x, targetX |-> x, vy |-> -340] :
     ty \in {"BOMB", "CHERRY"}, x \in {3000, 7000}}
Approaching(marks) ==
  \E i \in 1..Len(catchGame.fruitsRef) : \E lm \in marks :
    LET f == catchGame.fruitsRef[i]
        dx == pxX(f) - HandPosOf(lm).x
        dy == pxY(f) - HandPosOf(lm).y
    IN dx * dx + dy * dy <= 500 * 500
Shown(marks) == {LmHidden} \cup (IF Approaching(marks) THEN marks ELSE {})
\* Math.random() is called only where a fruit is spawned
Drawn(t) ==
  IF SpawnDue(catchGame, t) THEN FruitDraws
  ELSE {CHOOSE d \in FruitDraws : TRUE}
CatchInputs ==
  [left : Shown(LeftSlash), right : Shown(RightSlash),
   draws : Drawn(now + CatchFrameGap)]

\* one animation frame of the component; the cleanup of the isActive
\* effect runs before the frame that follows a game over
CatchFrame ==
  /\ catchGame.requested /\ gameState = "PLAYING"
  /\ now + CatchFrameGap <= MaxCatchTime
  /\ SpawnDue(catchGame, now + CatchFrameGap) => catchGame.spawned < MaxFruits
  /\ \E in \in CatchInputs :
       Becomes(catchUpdate([State EXCEPT !.now = now + CatchFrameGap], in))

\* the app has left PLAYING: the cleanup of the isActive effect runs
CatchDeactivate ==
  /\ catchGame.active /\ gameState # "PLAYING"
  /\ Becomes(catchCleanup(State))

NextCatch == CatchFrame \/ CatchDeactivate
SpecCatch == InitCatch /\ [][NextCatch]_vars

\* finishGame on its own, for every pair hitNotes <= totalNotes
InitGrade ==
  /\ now = 0 /\ audioAvailable = TRUE
  /\ SaberRefsInit /\ ObservationsInit /\ NoCatchGame
  /\ totalNotesRef \in 0..MaxNotes
  /\ hitNotesRef \in 0..totalNotesRef
  /\ scoreRef = 100 * hitNotesRef
  /\ isPlayingRef = TRUE
  /\ mounted = TRUE /\ frameDue = FrameGap
  /\ gameState = "PLAYING" /\ activeGame = "SABER" /\ score = 0 /\ gameGrade = ""
  /\ hoveredGame = Null /\ hoveredAction = Null /\ hoverProgress = 0
  /\ appHoverStartTimeRef = NoTime
FinishSession == gameOverCalls = <<>> /\ Becomes(finishGame(State))
NextGrade == FinishSession
SpecGrade == InitGrade /\ [][NextGrade]_vars

\* ------------------------------------------------------------------------
\* Properties of a session
\* ------------------------------------------------------------------------
\* the entries of the last tick's log of one kind
EventsOf(kind) == {j \in 1..Len(tickLog) : tickLog[j].kind = kind}

\* the last tick ran updateLevel
LevelTick == tickLog # <<>> /\ tickLog[1].kind = "level"

\* the hand that may hit a regular note of this colour
RequiredHand(block) == IF block.color = "red" THEN leftHandRef ELSE rightHandRef

\* C1: after every single update of the energy (hit, miss, hazard hit,
\* obstacle collision) the energy is an integer in 0..100.
C1_EnergyInRange ==
  /\ energyRef \in 0..100
  /\ \A j \in 1..Len(tickLog) : tickLog[j].after.energy \in 0..100

\* C2: combo is 0 right after any miss or hazard hit, a hit on a regular
\* note adds exactly 1 to it, and nothing else changes it upwards: between
\* two events of a tick, and from the last event to the end of the tick, the
\* combo does not move.
C2_ComboRule ==
  /\ \A j \in EventsOf("miss") \cup EventsOf("bomb") : tickLog[j].after.combo = 0
  /\ \A j \in EventsOf("hit") : tickLog[j].after.combo = tickLog[j].before.combo + 1
  /\ \A j \in 1..Len(tickLog) :
       /\ tickLog[j].kind \notin {"hit"} => tickLog[j].after.combo <= tickLog[j].before.combo
       /\ j > 1 => tickLog[j].before.combo = tickLog[j - 1].after.combo
       /\ j = Len(tickLog) => comboRef = tickLog[j].after.combo

\* a tick in which a note was missed while a combo was running
C2_Witness ==
  \E j \in EventsOf("miss") : tickLog[j].before.combo > 0

\* C10: a regular note whose required hand is within hit distance while the
\* note is hittable is hit on that tick (no hittable unhit note is left in
\* reach of its hand), and the hit adds 1 to hitNotes and to combo, adds 100
\* to the score at combo 0, and sets energy to min(100, energy + 4).
C10_RegularHit ==
  /\ LevelTick =>
       \A i \in 1..Len(blocksRef) :
         (blocksRef[i].type = "normal" /\ Hittable(blocksRef[i]))
           => ~hitCheck(RequiredHand(blocksRef[i]), blocksRef[i])
  /\ \A j \in EventsOf("hit") :
       LET e == tickLog[j] IN
       /\ e.after.hitNotes = e.before.hitNotes + 1
       /\ e.after.combo = e.before.combo + 1
       /\ e.before.combo = 0 => e.after.score = e.before.score + 100
       /\ e.after.energy = Min(100, e.before.energy + 4)

\* the first hit of a session
C10_Witness ==
  \E j \in EventsOf("hit") :
    /\ tickLog[j].before.combo = 0 /\ tickLog[j].after.combo = 1
    /\ tickLog[j].before.score = 0 /\ tickLog[j].after.score = 100
    /\ tickLog[j].after.energy = StartEnergy + 4

\* ------------------------------------------------------------------------
\* Properties of the scheduler
\* ------------------------------------------------------------------------
\* the subdivisions emitted by the last callback are consecutive: the one
\* numbered k since the start has index k mod 16 and nominal time
\* start + k * step, and the times strictly increase
EmittedInOrder ==
  \A j \in 1..Len(schedLog.emitted) :
    /\ schedLog.emitted[j].time
         = interval.start + (schedLog.first + j - 1) * SubdivisionStep
    /\ schedLog.emitted[j].beat = (schedLog.first + j - 1) % 16
    /\ (j > 1 => schedLog.emitted[j].time > schedLog.emitted[j - 1].time)

\* C6 (as stated): a callback at time t emits, in order, exactly the
\* subdivisions not yet emitted whose nominal time is <= t + 100 ms: all
\* emitted ones are within that limit and the next one left is beyond it.
C6_CatchUpInclusive ==
  schedLog.ran =>
    /\ EmittedInOrder
    /\ \A j \in 1..Len(schedLog.emitted) :
         schedLog.emitted[j].time <= (schedLog.at + scheduleAhead) * interval.bpm
    /\ nextNoteTimeRef > (schedLog.at + scheduleAhead) * interval.bpm

\* C6 (amended): a callback at time t emits, in order, exactly the
\* subdivisions not yet emitted whose nominal time is strictly before
\* t + 100 ms; one whose nominal time equals t + 100 ms waits for the next
\* callback.
C6_CatchUpStrict ==
  schedLog.ran =>
    /\ EmittedInOrder
    /\ \A j \in 1..Len(schedLog.emitted) :
         schedLog.emitted[j].time < (schedLog.at + scheduleAhead) * interval.bpm
    /\ nextNoteTimeRef >= (schedLog.at + scheduleAhead) * interval.bpm

\* a callback after a stall that caught up on several subdivisions
C6_Witness ==
  /\ schedLog.ran
  /\ Len(schedLog.emitted) >= 2
  /\ schedLog.first > 0

\* C7: the subdivision index stays in 0..15 and wraps from 15 to 0; the
\* k-th subdivision since the start has index k mod 16 and nominal time
\* start + k * (0.25 * 60 / bpm).
C7_SchedulerClock ==
  /\ current16thNoteRef \in 0..15
  /\ interval.active =>
       /\ nextNoteTimeRef = interval.start + interval.count * SubdivisionStep
       /\ current16thNoteRef = interval.count % 16
  /\ EmittedInOrder

\* the index has wrapped around and subdivisions were emitted after that
C7_Witness ==
  /\ interval.active
  /\ interval.count > 16
  /\ Len(schedLog.emitted) > 0
  /\ schedLog.first + Len(schedLog.emitted) > 16

\* ------------------------------------------------------------------------
\* Properties of a session without pose input
\* ------------------------------------------------------------------------
\* the session has reported its end
Finished == gameOverCalls # <<>>

\* notes that left the active set (with no hit registered, each was a miss)
Resolved == totalNotesRef - Len(blocksRef)

\* combo stays 0, nothing is hit, each note leaving the active set is a miss
\* that costs 8 energy down to 0, and the session is finished exactly when
\* the energy is 0
IdleSafety ==
  /\ comboRef = 0 /\ hitNotesRef = 0 /\ scoreRef = 0
  /\ \A i \in 1..Len(blocksRef) : ~blocksRef[i].hit
  /\ energyRef = Max(0, StartEnergy - 8 * Resolved)
  /\ \A j \in EventsOf("miss") :
       tickLog[j].after.energy = Max(0, tickLog[j].before.energy - 8)
  /\ energyRef <= 0 <=> Finished
  /\ Finished => ~isPlayingRef

\* C9: in a session on a synthesized track without any hand input, combo
\* stays 0 and nothing is hit, every note leaving the active set is a miss
\* costing 8 energy down to 0, the session is Finished on the tick energy
\* hits 0, and every spawned note ends up Missed: once the session is
\* Finished no tick judges notes any more, so by then no note may be left.
C9_AllNotesMissed ==
  /\ IdleSafety
  /\ Finished => blocksRef = <<>>

\* ------------------------------------------------------------------------
\* Properties of the grade
\* ------------------------------------------------------------------------
\* the grade of an accuracy hit / total, by the intervals of the thresholds
\* 9/10, 17/20, 3/4, 3/5 and 9/20
GradeByAccuracy(hit, total) ==
  IF 10 * hit >= 9 * total THEN "SSS"
  ELSE IF 20 * hit >= 17 * total /\ 10 * hit < 9 * total THEN "SS"
  ELSE IF 4 * hit >= 3 * total /\ 20 * hit < 17 * total THEN "S"
  ELSE IF 5 * hit >= 3 * total /\ 4 * hit < 3 * total THEN "A"
  ELSE IF 20 * hit >= 9 * total /\ 5 * hit < 3 * total THEN "B"
  ELSE "C"

\* C8: a finished session with totalNotes > 0 reports the grade given by
\* the accuracy hitNotes / totalNotes: >= 0.90 SSS, [0.85, 0.90) SS,
\* [0.75, 0.85) S, [0.60, 0.75) A, [0.45, 0.60) B, else C.
C8_GradeByAccuracy ==
  (Finished /\ totalNotesRef > 0) =>
    /\ Len(gameOverCalls) = 1
    /\ gameOverCalls[1].grade = GradeByAccuracy(hitNotesRef, totalNotesRef)
    /\ gameGrade = gameOverCalls[1].grade

\* a session finished at exactly 0.85 (17 of 20) is graded SS
C8_Witness ==
  /\ Finished
  /\ hitNotesRef = 17 /\ totalNotesRef = 20
  /\ gameOverCalls[1].grade = "SS"

\* ------------------------------------------------------------------------
\* Properties of the dwell selectors
\* ------------------------------------------------------------------------
\* the candidates of the app's selector and those of the track menu
AppItems == {"DODGE", "CATCH", "SABER", "RETRY", "MENU"}
TrackIds == {TRACK_LIST[i].id : i \in 1..Len(TRACK_LIST)}

\* how long the current run of updates with one candidate has lasted
RunLength == dwell.last - dwell.since

\* C3: a run of consecutive updates of the app's selector with one non-null
\* candidate that lasts at least 1500 ms has invoked the commit callback
\* exactly once, for that candidate (no run invokes it twice), and the
\* reported progress is within 0..100 in every state.
C3_AppDwell ==
  /\ hoverProgress \in 0..100
  /\ dwell.item \in AppItems =>
       /\ dwell.commits <= 1
       /\ RunLength >= AppDwell => dwell.commits = 1
       /\ dwell.commits = 1 =>
            /\ dwell.item \in {"DODGE", "CATCH", "SABER"} =>
                 gameState = "LOADING_MODEL" /\ activeGame = dwell.item
            /\ dwell.item = "RETRY" => gameState = "LOADING_MODEL"
            /\ dwell.item = "MENU" => gameState = "MENU" /\ activeGame = Null

\* a dwell over the Saber card has started the game
C3_Witness ==
  /\ dwell.item = "SABER" /\ dwell.commits = 1
  /\ RunLength >= AppDwell
  /\ gameState = "LOADING_MODEL" /\ activeGame = "SABER"

\* C4: in the track menu, a continuous hover over one track card lasting at
\* least 1500 ms has committed that track exactly once, however the frames
\* are spaced in time.
C4_TrackDwell ==
  dwell.item \in TrackIds =>
    /\ dwell.commits <= 1
    /\ RunLength >= MenuDwell => dwell.commits = 1

\* the item tracked by the app's selector and by the track menu
currentItem == IF gameState = "MENU" THEN hoveredGame ELSE hoveredAction

\* this step is an update of the app's selector, of the track menu
AppUpdate ==
  /\ gameState \in {"MENU", "GAME_OVER"} /\ ~mounted
  /\ now' > now /\ dwell'.last = now'
MenuUpdate ==
  /\ gameState = "PLAYING" /\ mounted /\ ~isPlayingRef
  /\ now' > now /\ dwell'.last = now'

\* while a candidate is tracked and nothing is committed, the start time the
\* selector counts from is the start of the current run of updates
NoCarryOver ==
  /\ (gameState \in {"MENU", "GAME_OVER"} /\ currentItem # Null)
       => /\ dwell.item = currentItem
          /\ appHoverStartTimeRef = dwell.since
  /\ (gameState = "PLAYING" /\ mounted /\ ~isPlayingRef
        /\ hoveredTrackIdRef # Null /\ dwell.commits = 0)
       => /\ dwell.item = hoveredTrackIdRef
          /\ hoverStartTimeRef = dwell.since

\* C5 (as stated): an update whose candidate differs from the tracked one
\* (a different target, or none) resets the tracking at once: the candidate
\* is tracked, progress is 0 and the start time is the time of the update,
\* so that no earlier hover time counts.
C5_StartIsChangeTime ==
  /\ [](NoCarryOver)
  /\ [][/\ (AppUpdate /\ dwell'.item # currentItem) =>
            /\ currentItem' = dwell'.item
            /\ hoverProgress' = 0
            /\ appHoverStartTimeRef' = now'
        /\ (MenuUpdate /\ dwell'.item # hoveredTrackIdRef) =>
            /\ hoveredTrackIdRef' = dwell'.item
            /\ hoverStartTimeRef' = now']_vars

\* C5 (amended): an update whose candidate differs from the tracked one
\* resets the tracking at once: the candidate is tracked and progress is 0;
\* for a different target the start time is the time of the update, for no
\* target it is cleared (null in the app, 0 in the track menu); hover time
\* from before the change never counts toward a later commit.
C5_ResetOnChange ==
  /\ [](NoCarryOver)
  /\ [][/\ (AppUpdate /\ dwell'.item # currentItem) =>
            /\ currentItem' = dwell'.item
            /\ hoverProgress' = 0
            /\ appHoverStartTimeRef' = IF dwell'.item = Null THEN NoTime ELSE now'
        /\ (MenuUpdate /\ dwell'.item # hoveredTrackIdRef) =>
            /\ hoveredTrackIdRef' = dwell'.item
            /\ hoverStartTimeRef' = IF dwell'.item = Null THEN 0 ELSE now']_vars

\* after earlier updates with another candidate (another card or none) the
\* cursor has come onto the Catch card, and the start time is the time of
\* that update
C5_Witness ==
  /\ gameState = "MENU" /\ hoveredGame = "CATCH"
  /\ dwell.item = "CATCH" /\ dwell.since = now /\ now >= 2 * ShortGap
  /\ appHoverStartTimeRef = now /\ hoverProgress = 0

\* ------------------------------------------------------------------------
\* Properties of the end of a session
\* ------------------------------------------------------------------------
\* C12: at the end of every tick the session is not still playing with
\* energy <= 0, whichever event (miss, hazard hit, obstacle collision) has
\* brought the energy down.
C12_NoPlayAtZero == isPlayingRef => energyRef > 0

\* a hand is within hit distance of the block
InReach(block) == hitCheck(leftHandRef, block) \/ hitCheck(rightHandRef, block)

\* C11: a hazard note in its hittable window with either hand within hit
\* distance is hit on that tick (none is left unhit in reach); the hit takes
\* 15 energy, not below 0, sets combo to 0, leaves score and hitNotes alone,
\* and if the energy is then <= 0 the session is finished on that same tick.
C11_HazardHit ==
  /\ LevelTick =>
       \A i \in 1..Len(blocksRef) :
         (blocksRef[i].type = "bomb" /\ Hittable(blocksRef[i]))
           => ~InReach(blocksRef[i])
  /\ \A j \in EventsOf("bomb") :
       LET e == tickLog[j] IN
       /\ e.after.energy = Max(0, e.before.energy - 15)
       /\ e.after.combo = 0
       /\ e.after.score = e.before.score
       /\ e.after.hitNotes = e.before.hitNotes
       /\ e.after.energy <= 0 => (~e.after.playing /\ Finished /\ ~isPlayingRef)

\* the hazard hit that takes the last 5 energy and finishes the session
C11_Witness ==
  \E j \in EventsOf("bomb") :
    /\ tickLog[j].before.energy = 5 /\ tickLog[j].after.energy = 0
    /\ tickLog[j].before.playing /\ ~tickLog[j].after.playing
    /\ Finished

\* C13: the session-end callback is invoked exactly once per session, with
\* the final score and grade, when the session finishes: never before, and
\* no later event of the session (another miss of the same tick, the `ended`
\* event of the uploaded track, the teardown) invokes it again.
C13_CallbackOnce ==
  /\ Len(gameOverCalls) <= 1
  /\ isPlayingRef => gameOverCalls = <<>>
  /\ (gameOverCalls # <<>> /\ mounted) =>
       /\ gameOverCalls[1].score = scoreRef
       /\ gameOverCalls[1].grade =
            (IF totalNotesRef > 0 THEN GradeOf(hitNotesRef, totalNotesRef) ELSE "D")

\* the HUD scalars and counters of the session
Tally == <<scoreRef, comboRef, energyRef, hitNotesRef, totalNotesRef>>

\* the scalars of a snapshot that a finished session keeps
Kept(snap) == <<snap.score, snap.combo, snap.energy, snap.hitNotes>>

\* C14: Finished is terminal: once the session has finished, nothing later
\* in the same tick, and while the component of the session exists no later
\* tick or timer event, makes the session Playing again or changes its
\* score, combo, energy, hitNotes or totalNotes.
C14_FinishedTerminal ==
  /\ [](\A j \in EventsOf("finish") : \A k \in (j + 1)..Len(tickLog) :
          /\ ~tickLog[k].after.playing
          /\ Kept(tickLog[k].after) = Kept(tickLog[j].after))
  /\ [][(Finished /\ mounted /\ mounted')
          => (~isPlayingRef' /\ Tally' = Tally)]_vars

\* ------------------------------------------------------------------------
\* Properties of the outcomes of notes and obstacles
\* ------------------------------------------------------------------------
\* the notes of the active set that have been neither hit nor missed, and
\* the obstacles of the active set that have not applied their penalty
Pending == {i \in 1..Len(blocksRef) : blocksRef[i].type = "normal" /\ ~blocksRef[i].hit}
Unhit == {j \in 1..Len(obstaclesRef) : ~obstaclesRef[j].hit}

\* C15: the outcome of a note or of an obstacle is final and happens once:
\* every spawned note is pending, or has been hit once, or has been missed
\* once (so hits + misses + pending = totalNotes, and the hits are the
\* hitNotes), and there are no more collision penalties than obstacles that
\* have been spawned and are not still unhit.
C15_OneOutcome ==
  mounted =>
    /\ outcomes.hit = hitNotesRef
    /\ outcomes.hit + outcomes.miss + Cardinality(Pending) = totalNotesRef
    /\ outcomes.wall + Cardinality(Unhit) <= outcomes.walls

\* a session in which a note was hit and is still in the active set behind
\* the player, another note was missed, and an obstacle has applied its penalty
C15_Witness ==
  /\ mounted /\ outcomes.hit >= 1 /\ outcomes.miss >= 1 /\ outcomes.wall >= 1
  /\ \E i \in 1..Len(blocksRef) :
       blocksRef[i].hit /\ blocksRef[i].z <= HIT_WINDOW_Z_NEAR

\* ------------------------------------------------------------------------
\* Properties of the teardown
\* ------------------------------------------------------------------------
\* the session of the mounted component has left Playing: it has finished
\* (energy 0 or end of the track) or the player has left through the exit
LeftPlaying == mounted /\ (Finished \/ gameState # "PLAYING")

\* C16: once a session has left Playing, the periodic timer of the
\* scheduler does not fire for it any more: no note or obstacle is spawned
\* and totalNotes does not change.
C16_TimerStopped ==
  [][(LeftPlaying /\ mounted')
       => /\ interval' = interval /\ schedLog' = schedLog
          /\ Len(blocksRef') <= Len(blocksRef)
          /\ Len(obstaclesRef') <= Len(obstaclesRef)
          /\ totalNotesRef' = totalNotesRef]_vars

\* what startLevel does to the timer and the source of an earlier session
stopPrevious(s) == stopSource(clearTimer(s))

\* C17: the teardown is idempotent: in every state of the session, running
\* the cleanup of the effect (clear the timer, stop the source, close and
\* forget the audio context) twice leaves the state that running it once
\* leaves, and so does the stop of the earlier timer and source in
\* startLevel.
C17_TeardownIdempotent ==
  /\ cleanup(cleanup(State)) = cleanup(State)
  /\ stopPrevious(stopPrevious(State)) = stopPrevious(State)

\* the cleanup has run on a component that had started a timer and then a
\* source, which was playing: its `ended` event is queued, and a second
\* cleanup finds nothing to do
C17_Witness ==
  /\ ~mounted /\ timerIDRef # 0 /\ ~interval.active
  /\ userSourceRef /\ ~sourcePlaying /\ pendingEnded = 1 /\ ~audioCtxRef
  /\ cleanup(State) = State

\* ------------------------------------------------------------------------
\* Properties of startLevel
\* ------------------------------------------------------------------------
\* the states in which startLevel can be entered: the present one (from the
\* track menu) and, while a file is being decoded, the one that
\* handleFileUpload has prepared with the decoded buffer
BeforeStart ==
  {State} \cup
  (IF decoding
   THEN {[State EXCEPT !.decoding = FALSE, !.userAudioBufferRef = TRUE]}
   ELSE {})

\* the state right after startLevel is a session started from scratch
FromScratch(r, bpm) ==
  /\ r.scoreRef = 0 /\ r.comboRef = 0 /\ r.energyRef = StartEnergy
  /\ r.hitNotesRef = 0 /\ r.totalNotesRef = 0
  /\ r.blocksRef = <<>> /\ r.obstaclesRef = <<>>
  /\ r.interval.active =>
       /\ ~r.userAudioBufferRef
       /\ r.interval.count = 0 /\ r.interval.bpm = bpm
       /\ r.interval.due = r.now + SchedulerPeriod
  /\ (r.isPlayingRef /\ ~r.userAudioBufferRef) =>
       /\ r.current16thNoteRef = 0
       /\ r.interval.active

\* C18: whatever an earlier session has left behind, right after startLevel
\* score, combo, hitNotes and totalNotes are 0, energy is 50, there is no
\* active note or obstacle, no timer of an earlier session is running, and
\* on a synthesized track the subdivision counter is 0.
C18_StartLevelResets ==
  \A s \in BeforeStart : \A i \in 1..Len(TRACK_LIST) :
    FromScratch(startLevel(s, TRACK_LIST[i].bpm), TRACK_LIST[i].bpm)

\* the uploaded track has just been started over a running synthesized
\* session: the timer of that session, which had scheduled subdivisions,
\* is cancelled, and score, counters and active sets are those of a new
\* session
C18_Witness ==
  /\ isPlayingRef /\ userSourceRef /\ sourcePlaying /\ tickLog # <<>>
  /\ timerIDRef # 0 /\ ~interval.active /\ interval.count > 4
  /\ current16thNoteRef # 0
  /\ scoreRef = 0 /\ energyRef = StartEnergy /\ totalNotesRef = 0
  /\ blocksRef = <<>> /\ outcomes = NoOutcomes
  /\ tickLog[1].kind = "level" /\ frameDue = now + FrameGap

\* the track menu has committed a synthesized track in the current hover
Selected ==
  /\ mounted /\ dwell.commits >= 1
  /\ \E i \in SynthTracks : dwell.item = TRACK_LIST[i].id

\* C19: when no audio context can be created, a track selected in the track
\* menu is still started: the session is Playing and the timer of the
\* scheduler runs, so that notes and obstacles are spawned.
C19_PlaysWithoutAudio ==
  (Selected /\ ~audioAvailable) => (isPlayingRef /\ interval.active)

\* ------------------------------------------------------------------------
\* Properties of handleFileUpload
\* ------------------------------------------------------------------------
\* this step ends a decoding without a decoded buffer: the catch block ran
DecodeFails == decoding /\ ~decoding' /\ ~userAudioBufferRef'

\* C20: when the chosen file cannot be decoded, an alert is shown and the
\* session is not started: a component in its track menu stays there, and
\* score, combo, energy, hitNotes, totalNotes, the active notes and
\* obstacles, the timer and the source are left as they were.
C20_DecodeFailure ==
  [][DecodeFails =>
       /\ alerts' = alerts + 1
       /\ isPlayingRef' = isPlayingRef /\ gameState' = gameState
       /\ Tally' = Tally
       /\ blocksRef' = blocksRef /\ obstaclesRef' = obstaclesRef
       /\ interval' = interval /\ sourcePlaying' = sourcePlaying
       /\ gameOverCalls' = gameOverCalls]_vars

\* the decoding has failed once in a component that is still in its track
\* menu and has never started a level
C20_Witness ==
  /\ alerts = 1 /\ ~decoding /\ ~fileDialogOpen
  /\ mounted /\ gameState = "PLAYING" /\ ~isPlayingRef
  /\ timerIDRef = 0 /\ ~userSourceRef /\ ~userAudioBufferRef
  /\ gameOverCalls = <<>>

\* ------------------------------------------------------------------------
\* Properties of the hands
\* ------------------------------------------------------------------------
\* C21: a hand that is lost on a tick (no pose result, or its landmark is
\* absent or not above the confidence threshold) registers no hit on that
\* tick, even if its last known position is within a note's hit radius:
\* every hit of the tick is made by a hand that the tick's input has placed.
C21_LostHandNoHit ==
  \A j \in EventsOf("hit") \cup EventsOf("bomb") : ~tickLog[j].stale

\* this step is a tick of the app's dwell cursor on which no pose was
\* available: time has passed and no update of the selector was made
NoPoseTick ==
  /\ gameState \in {"MENU", "GAME_OVER"} /\ ~mounted
  /\ now' > now /\ dwell' = dwell

\* C22: a tick of the menu or game-over cursor without a pose is treated as
\* hand lost: after it the dwell candidate is null and the hover has no start
\* time and no progress, so that the time of such ticks does not count
\* towards a dwell.
C22_NoPoseIsHandLost ==
  [][NoPoseTick =>
       /\ hoveredGame' = Null /\ hoveredAction' = Null
       /\ appHoverStartTimeRef' = NoTime /\ hoverProgress' = 0]_vars

\* ------------------------------------------------------------------------
\* Properties of the score
\* ------------------------------------------------------------------------
\* C23: a regular hit increments the combo and adds to the score the base
\* value times the bonus tier of that combo, 100 while the combo is at most
\* 10 and 110 once it is above 10; the score of a session never decreases.
C23_ScoreByComboTier ==
  /\ [](\A j \in EventsOf("hit") :
          LET e == tickLog[j] IN
          /\ e.after.combo = e.before.combo + 1
          /\ e.after.score - e.before.score =
               (IF e.after.combo > 10 THEN 110 ELSE 100))
  /\ [][(isPlayingRef /\ isPlayingRef') => scoreRef' >= scoreRef]_vars

\* C23 as the code has it: a regular hit increments the combo and adds to
\* the score 100 when the combo before the hit is at most 10 and 110 when
\* the combo before the hit is above 10; the score of a session never
\* decreases.
C23_ScoreByPriorCombo ==
  /\ [](\A j \in EventsOf("hit") :
          LET e == tickLog[j] IN
          /\ e.after.combo = e.before.combo + 1
          /\ e.after.score - e.before.score =
               (IF e.before.combo > 10 THEN 110 ELSE 100))
  /\ [][(isPlayingRef /\ isPlayingRef') => scoreRef' >= scoreRef]_vars

\* the hit that takes the combo from 10 to 11 has scored 100 and the next
\* one 110
C23_Witness ==
  /\ \E j \in EventsOf("hit") :
       /\ tickLog[j].before.combo = 10
       /\ tickLog[j].after.score = tickLog[j].before.score + 100
  /\ \E j \in EventsOf("hit") :
       /\ tickLog[j].before.combo = 11
       /\ tickLog[j].after.score = tickLog[j].before.score + 110

\* ------------------------------------------------------------------------
\* Properties of the hit window
\* ------------------------------------------------------------------------
\* C24: a note registers a hit (regular or hazard) only while its depth is
\* inside [HIT_WINDOW_Z_NEAR, HIT_WINDOW_Z_FAR] = [-150, 350].
C24_HitInsideWindow ==
  \A j \in EventsOf("hit") \cup EventsOf("bomb") :
    /\ tickLog[j].z >= HIT_WINDOW_Z_NEAR
    /\ tickLog[j].z <= HIT_WINDOW_Z_FAR

\* a note is hit on the first frame that finds it inside the window, the
\* frame before having found it outside with the same hand in the same place
C24_Witness ==
  \E j \in EventsOf("hit") :
    /\ tickLog[j].z < HIT_WINDOW_Z_FAR
    /\ tickLog[j].z + GAME_SPEED >= HIT_WINDOW_Z_FAR

\* C25: a regular note still unhit when its depth passes the near bound of
\* the hit window is missed at that point: the combo reset and the energy
\* penalty are applied on the first tick on which it is no longer hittable.
C25_MissAtNearBound ==
  \A j \in EventsOf("miss") :
    /\ tickLog[j].z <= HIT_WINDOW_Z_NEAR
    /\ tickLog[j].z + GAME_SPEED > HIT_WINDOW_Z_NEAR

\* C25 as the code has it: the combo reset and the energy penalty are
\* applied on the first tick on which the note's depth is below -250, where
\* it is removed; an unhit note between -150 and -250 is neither hittable
\* nor yet missed.
C25_MissAtRemoval ==
  /\ \A j \in EventsOf("miss") :
       LET e == tickLog[j] IN
       /\ e.z < -250
       /\ e.z + GAME_SPEED >= -250
       /\ e.after.combo = 0
       /\ e.after.energy = Max(0, e.before.energy - 8)
  /\ \A i \in 1..Len(blocksRef) : blocksRef[i].z >= -250

\* a note is missed on the tick that takes it below -250, after a hit
C25_Witness ==
  \E j \in EventsOf("miss") :
    /\ tickLog[j].z < -250
    /\ tickLog[j].before.combo > 0 /\ tickLog[j].after.combo = 0
    /\ tickLog[j].after.energy = tickLog[j].before.energy - 8

\* C26: a hazard note that is removed without having been touched causes no
\* penalty: combo, energy, score, hitNotes and totalNotes are as they were
\* before its removal, and a playing session is still playing after it.
C26_HazardExpiresFree ==
  \A j \in EventsOf("expire") :
    LET e == tickLog[j] IN
    /\ e.z < -250
    /\ e.after.combo = e.before.combo
    /\ e.after.energy = e.before.energy
    /\ e.after.score = e.before.score
    /\ e.after.hitNotes = e.before.hitNotes
    /\ e.after.totalNotes = e.before.totalNotes
    /\ e.after.playing = e.before.playing

\* an untouched hazard is removed from a playing session whose energy a
\* penalty would lower
C26_Witness ==
  \E j \in EventsOf("expire") :
    /\ tickLog[j].before.playing /\ tickLog[j].after.playing
    /\ tickLog[j].before.energy = StartEnergy
    /\ outcomes.bomb = 0

\* the hand that may not hit a regular note of this colour
OtherHand(block) == IF block.color = "red" THEN rightHandRef ELSE leftHandRef

\* after a level tick, a regular note is in the hit window, unhit, with the
\* hand of the other colour within hit distance of it
WrongHandOnly ==
  /\ LevelTick
  /\ \E i \in 1..Len(blocksRef) :
       /\ blocksRef[i].type = "normal" /\ Hittable(blocksRef[i])
       /\ hitCheck(OtherHand(blocksRef[i]), blocksRef[i])
       /\ ~hitCheck(RequiredHand(blocksRef[i]), blocksRef[i])

\* C27: only the hand designated by a regular note's colour hits it (red:
\* left hand, blue: right hand): every hit of a red note is made with the
\* left hand within hit distance and every hit of a blue note with the right
\* hand, and a tick on which only the other hand is within hit distance of a
\* hittable note (and nothing happens to another note or obstacle) leaves
\* score, combo, energy and hitNotes as they were.
C27_DesignatedHandOnly ==
  /\ \A j \in EventsOf("hit") :
       /\ tickLog[j].color \in {"red", "blue"}
       /\ tickLog[j].color = "red" => tickLog[j].left
       /\ tickLog[j].color = "blue" => tickLog[j].right
  /\ (WrongHandOnly /\ Len(tickLog) = 1) =>
       /\ scoreRef = tickLog[1].before.score
       /\ comboRef = tickLog[1].before.combo
       /\ energyRef = tickLog[1].before.energy
       /\ hitNotesRef = tickLog[1].before.hitNotes

\* a tick leaves a note unhit with only the other hand within hit distance
C27_Witness == WrongHandOnly /\ Len(tickLog) = 1

\* ------------------------------------------------------------------------
\* Properties of the obstacles
\* ------------------------------------------------------------------------
\* C28: a failed dodge takes exactly 10 from the energy and sets the combo
\* to 0, and does not by itself end the session: a session that was playing
\* before the collision is playing after it and until that tick ends.
C28_FailedDodge ==
  \A j \in EventsOf("wall") :
    LET e == tickLog[j] IN
    /\ e.z < 250 /\ e.z > -100
    /\ e.after.energy = e.before.energy - 10
    /\ e.after.combo = 0
    /\ e.after.score = e.before.score
    /\ e.before.playing =>
         \A k \in j..Len(tickLog) : tickLog[k].after.playing

\* a collision takes the energy of a playing session to 0 or below and the
\* session is still playing at the end of the tick
C28_Witness ==
  \E j \in EventsOf("wall") :
    /\ tickLog[j].before.playing
    /\ tickLog[j].before.energy > 0 /\ tickLog[j].after.energy <= 0
    /\ tickLog[Len(tickLog)].after.playing

\* ------------------------------------------------------------------------
\* Properties of the spawns of an uploaded track
\* ------------------------------------------------------------------------
\* C29: on an uploaded track any two spawn triggers are more than 600 ms
\* apart, whatever the bass readings and the times of the ticks.
C29_SpawnsDebounced ==
  Len(spawnLog) = 2 => spawnLog[2] - spawnLog[1] > 600

\* two spawns 601 ms apart, the first frame after the last spawn (300 ms
\* later) having read a level that would trigger one
C29_Witness ==
  /\ Len(spawnLog) = 2 /\ spawnLog[2] - spawnLog[1] = 601
  /\ now = spawnLog[2]
  /\ Len(bassHistoryRef) > 2
  /\ IsBeat(bassHistoryRef[Len(bassHistoryRef) - 1],
            SubSeq(bassHistoryRef, 1, Len(bassHistoryRef) - 1))

\* a spawn was triggered on the last tick
SpawnedNow ==
  /\ mounted /\ LevelTick
  /\ spawnLog # <<>> /\ spawnLog[Len(spawnLog)] = now

\* C30: on an uploaded track a spawn is triggered on a tick only if the bass
\* reading of the tick is strictly greater than 1.3 times the average of the
\* most recent readings (at most 30, this one included) and strictly greater
\* than the floor 120 (1200 as a sum of ten bins); the readings kept are the
\* most recent ones, in order; and a passage of constant level never
\* triggers a spawn.
C30_SpawnOnlyOnBeat ==
  /\ [](Len(bassHistoryRef) <= 30)
  /\ [](SpawnedNow =>
          LET h == bassHistoryRef
              b == h[Len(h)]
          IN /\ 10 * b * Len(h) > 13 * SumSeq(h)
             /\ b > 1200
             /\ \E k \in 1..Len(h) : h[k] # b)
  /\ [][(isPlayingRef /\ isPlayingRef' /\ bassHistoryRef' # bassHistoryRef) =>
          /\ Len(bassHistoryRef') = Min(30, Len(bassHistoryRef) + 1)
          /\ SubSeq(bassHistoryRef', 1, Len(bassHistoryRef') - 1) =
               (IF Len(bassHistoryRef) < 30 THEN bassHistoryRef
                ELSE Tail(bassHistoryRef))]_vars

\* a spawn on the reading just above 1.3 times the average of thirty
\* readings, twenty-nine of them those of the loud passage
C30_Witness ==
  /\ SpawnedNow
  /\ Len(bassHistoryRef) = 30
  /\ bassHistoryRef[1] = 1435 /\ bassHistoryRef[29] = 1435
  /\ bassHistoryRef[30] = 1886

\* ------------------------------------------------------------------------
\* Properties of the spawn mapping of the synthesized tracks
\* ------------------------------------------------------------------------
\* how many of the subdivisions processed since the start have index beat
Processed(beat) ==
  Cardinality({k \in 0..(interval.count - 1) : k % 16 = beat})

\* how many active blocks are regular notes of this lane and colour
NotesAt(gridX, gridY, color) ==
  Cardinality({i \in 1..Len(blocksRef) :
                 /\ blocksRef[i].gridX = gridX /\ blocksRef[i].gridY = gridY
                 /\ blocksRef[i].color = color /\ blocksRef[i].type = "normal"})

\* C31: on a synthesized track every processed subdivision of index 0, 4,
\* 8, 12 spawns exactly one regular note, at (2,0) blue, (1,0) red, (2,1)
\* blue and (1,1) red; those of index 14 and 2 spawn at most one, at (2,2)
\* blue and (1,2) red; the others spawn none; so k full bars add between
\* 4k and 6k to totalNotes.  No block has moved or left while only the
\* scheduler runs, so the blocks are counted in blocksRef.
C31_SpawnMapping ==
  interval.active =>
    /\ NotesAt(2, 0, "blue") = Processed(0)
    /\ NotesAt(1, 0, "red") = Processed(4)
    /\ NotesAt(2, 1, "blue") = Processed(8)
    /\ NotesAt(1, 1, "red") = Processed(12)
    /\ NotesAt(2, 2, "blue") <= Processed(14)
    /\ NotesAt(1, 2, "red") <= Processed(2)
    /\ Len(blocksRef) = NotesAt(2, 0, "blue") + NotesAt(1, 0, "red")
                        + NotesAt(2, 1, "blue") + NotesAt(1, 1, "red")
                        + NotesAt(2, 2, "blue") + NotesAt(1, 2, "red")
    /\ totalNotesRef = Len(blocksRef)
    /\ \A i \in 1..Len(blocksRef) : blocksRef[i].z = SPAWN_Z
    /\ interval.count % 16 = 0 =>
         /\ totalNotesRef >= 4 * (interval.count \div 16)
         /\ totalNotesRef <= 6 * (interval.count \div 16)

\* one full bar has been processed and has spawned all six notes
C31_Witness ==
  /\ interval.active /\ interval.count = 16
  /\ totalNotesRef = 6
  /\ NotesAt(2, 2, "blue") = 1 /\ NotesAt(1, 2, "red") = 1

\* ------------------------------------------------------------------------
\* Properties of the active sets
\* ------------------------------------------------------------------------
\* C32: entities past the terminal depth are removed whatever their state:
\* at the end of every tick no active note, hit or not, has a depth below
\* -250 and no active obstacle, hit or not, has a depth below -500, and none
\* is left marked for removal.
C32_RemovedPastTerminal ==
  /\ \A i \in 1..Len(blocksRef) :
       blocksRef[i].z >= -250 /\ ~blocksRef[i].remove
  /\ \A j \in 1..Len(obstaclesRef) :
       obstaclesRef[j].z >= -500 /\ ~obstaclesRef[j].remove

\* notes have been hit and missed, the only wall of the session has been
\* run into, and every one of them has left the active sets
C32_Witness ==
  /\ isPlayingRef
  /\ outcomes.hit > 0 /\ outcomes.miss > 0
  /\ outcomes.walls = 1 /\ outcomes.wall = 1
  /\ obstaclesRef = <<>>
  /\ \A i \in 1..Len(blocksRef) : ~blocksRef[i].hit /\ blocksRef[i].z > 0

\* ------------------------------------------------------------------------
\* Properties of the hand tracking
\* ------------------------------------------------------------------------
\* this step is an animation frame that had a pose
PoseFrameStep ==
  /\ mounted /\ mounted' /\ sabers.followed
  /\ frameDue' # frameDue
  /\ tickLog' # <<>> /\ tickLog'[1].pose

\* C33: when the confidence of a hand landmark is not above the threshold
\* on a tick, the tracked hand is left exactly as it was: its position, its
\* velocity vector and its history are unchanged (it is not moved to the
\* origin or to any other default position).
C33_LostHandUnchanged ==
  [][PoseFrameStep =>
       /\ ~tickLog'[1].left =>
            /\ leftHandRef' = leftHandRef
            /\ sabers'.left = sabers.left
       /\ ~tickLog'[1].right =>
            /\ rightHandRef' = rightHandRef
            /\ sabers'.right = sabers.right]_vars

\* a frame has a pose without a confident left hand, and the left hand is
\* where the frames before have moved it, with the velocity and the history
\* they have left
C33_Witness ==
  /\ mounted /\ sabers.followed
  /\ tickLog # <<>> /\ tickLog[1].pose /\ ~tickLog[1].left /\ tickLog[1].right
  /\ leftHandRef # [x |-> 0, y |-> 0]
  /\ Len(sabers.left.history) >= 2
  /\ sabers.left.velocityVector # [x |-> 0, y |-> 0]
  /\ sabers.left.history[Len(sabers.left.history)] = leftHandRef

\* ------------------------------------------------------------------------
\* Properties of the note counters
\* ------------------------------------------------------------------------
\* C34: hitNotes and totalNotes accumulate over the session: neither
\* decreases while the session is playing, totalNotes is the number of
\* regular notes spawned (those hit, those missed and those still pending),
\* and hitNotes <= totalNotes, so that the accuracy is in [0, 1].
C34_CountersAccumulate ==
  /\ [](hitNotesRef >= 0 /\ hitNotesRef <= totalNotesRef)
  /\ [](mounted =>
          totalNotesRef = outcomes.hit + outcomes.miss + Cardinality(Pending))
  /\ [][(mounted /\ isPlayingRef /\ mounted' /\ isPlayingRef') =>
          /\ hitNotesRef' >= hitNotesRef
          /\ totalNotesRef' >= totalNotesRef]_vars

\* C35: a session that finishes with totalNotes = 0 reports the grade D,
\* and the reported grade is one of SSS, SS, S, A, B, C exactly when
\* totalNotes > 0.
C35_GradeWithoutNotes ==
  Finished =>
    /\ Len(gameOverCalls) = 1
    /\ totalNotesRef = 0 => gameOverCalls[1].grade = "D"
    /\ gameOverCalls[1].grade \in {"SSS", "SS", "S", "A", "B", "C"}
         <=> totalNotesRef > 0
    /\ gameGrade = gameOverCalls[1].grade

\* a session without a note has finished and is graded D
C35_Witness ==
  /\ Finished
  /\ totalNotesRef = 0 /\ hitNotesRef = 0
  /\ gameOverCalls[1].grade = "D" /\ gameGrade = "D"

\* ------------------------------------------------------------------------
\* Properties of the spawners
\* ------------------------------------------------------------------------
\* C36: no hazard note is ever in the active set: the scheduler of the
\* synthesized tracks and the spawner of the uploaded track only spawn
\* regular notes, so every active note is regular and no hazard is ever hit.
C36_NoHazards ==
  /\ \A i \in 1..Len(blocksRef) : blocksRef[i].type = "normal"
  /\ outcomes.bomb = 0
  /\ EventsOf("bomb") = {} /\ EventsOf("expire") = {}
  /\ totalNotesRef >= Len(blocksRef)

\* notes spawned by the spawner of an uploaded track are active, and one of
\* them has been hit
C36_Witness ==
  /\ isPlayingRef /\ userAudioBufferRef
  /\ Len(blocksRef) >= 2 /\ outcomes.hit >= 1

\* ------------------------------------------------------------------------
\* Properties of leaving a session
\* ------------------------------------------------------------------------
\* C37: after the player has left a running session for the menu, the app
\* does not enter GAME_OVER unless a new game is started first: no callback
\* of the session that was left arrives late, and GAME_OVER is only ever
\* entered from PLAYING.
C37_GameOverOnlyFromPlaying ==
  [][(gameState' = "GAME_OVER" /\ gameState # "GAME_OVER")
       => gameState = "PLAYING"]_vars

\* C38: a session that is Playing is never restarted underneath the
\* player: when the decoding of an uploaded file completes while a track
\* started by dwell is being played, the score, energy, combo, counters and
\* active notes and obstacles of the running session stay as they are.
C38_NoRestartWhilePlaying ==
  [][(mounted /\ isPlayingRef /\ decoding /\ ~decoding')
       => /\ isPlayingRef'
          /\ UNCHANGED <<scoreRef, comboRef, energyRef, hitNotesRef,
                         totalNotesRef, blocksRef, obstaclesRef>>]_vars

\* ------------------------------------------------------------------------
\* Properties of the fruit-slicing game
\* ------------------------------------------------------------------------
\* C39: lives is always in 0..3 and the game-over callback is invoked
\* exactly once, on the tick on which lives reaches 0: a cherry never
\* raises lives above 3, and several bombs cut within one tick neither
\* drive lives below 0 nor end the game twice.
C39_LivesAndGameOver ==
  /\ catchGame.livesRef \in 0..3
  /\ Len(gameOverCalls) <= 1
  /\ activeGame = "CATCH" => (Len(gameOverCalls) = 1 <=> catchGame.livesRef = 0)

====
